---- MODULE Spec2Model ----
(***************************************************************************)
(* Relationship-graph analysis and diagram-layout engine of the PBIP       *)
(* layout optimizer (tools/pbip_layout_optimizer): RelationshipAnalyzer,   *)
(* TableCategorizer, DimensionOptimizer, UniversalChainAlignment,          *)
(* FamilyAwareAlignment, PositionCalculator, ChainAwarePositionGenerator   *)
(* and MiddleOutLayoutEngine.generate_middle_out_layout.                   *)
(*                                                                         *)
(* Table names are strings; Python lists are sequences; Python sets are    *)
(* sets, enumerated (where the code iterates one) in the order given by    *)
(* the run's hash order, which differs between interpreter runs.           *)
(***************************************************************************)
EXTENDS Integers, Sequences, FiniteSets, TLC

VARIABLES
    pc,            \* position of the run in its pipeline
    tables,        \* _get_table_names_from_tmdl(): the sorted table names
    rels,          \* parse_relationships_from_tmdl(): the relationship records
    hashOrder,     \* this run's enumeration order of sets of table names
    connections,   \* the connection graph: [keys: insertion order, adj: name -> set]
    cat,           \* the Categorization returned by categorize_tables
    work,          \* the working value of the running operation
    out,           \* the result of the running operation
    finished,      \* the results of the runs that returned before this one
    disk,          \* the PBIP folder: relationships.tmdl and diagramLayout.json
    result         \* what apply_middle_out_layout returned to its caller, if it has

vars == <<pc, tables, rels, hashOrder, connections, cat, work, out, finished, disk, result>>

None == "<none>"

\* the folder of a run that reads its input from memory
NoDisk == [semantic_model |-> TRUE, relationships |-> [status |-> "present", records |-> <<>>], layout |-> <<>>]

(***************************************************************************)
(* Sequences and strings as Python uses them.                              *)
(***************************************************************************)
Range(s) == {s[i] : i \in 1..Len(s)}

InSeq(x, s) == \E i \in 1..Len(s) : s[i] = x

IndexOf(x, s) == CHOOSE i \in 1..Len(s) : s[i] = x /\ \A j \in 1..(i - 1) : s[j] # x

\* list.remove(x): drops the first occurrence
RemoveFirst(s, x) ==
    IF InSeq(x, s)
    THEN LET i == IndexOf(x, s) IN SubSeq(s, 1, i - 1) \o SubSeq(s, i + 1, Len(s))
    ELSE s

RECURSIVE AtIndices(_, _)
\* the elements of s at the indices in keep, in order
AtIndices(s, keep) ==
    IF s = <<>> THEN <<>>
    ELSE AtIndices(SubSeq(s, 1, Len(s) - 1), keep)
         \o (IF Len(s) \in keep THEN <<s[Len(s)]>> ELSE <<>>)

\* [t for t in s if t not in drop]
Without(s, drop) == SelectSeq(s, LAMBDA t : t \notin drop)

\* [t for t in s if t in keep]
Within(s, keep) == SelectSeq(s, LAMBDA t : t \in keep)

NoDuplicates(s) == \A i, j \in 1..Len(s) : i # j => s[i] # s[j]

Min2(a, b) == IF a <= b THEN a ELSE b

Max2(a, b) == IF a >= b THEN a ELSE b

\* pattern in text
Contains(text, pattern) ==
    \E i \in 1..(Len(text) - Len(pattern) + 1) : SubSeq(text, i, i + Len(pattern) - 1) = pattern

\* text.startswith(prefix)
StartsWith(text, prefix) ==
    Len(prefix) <= Len(text) /\ SubSeq(text, 1, Len(prefix)) = prefix

AnyIn(text, patterns) == \E p \in patterns : Contains(text, p)

AnyPrefix(text, prefixes) == \E p \in prefixes : StartsWith(text, p)

UpperCase == "ABCDEFGHIJKLMNOPQRSTUVWXYZ"

LowerCase == "abcdefghijklmnopqrstuvwxyz"

\* code-point order of the characters table names are made of
CodePoints == " #*-.0123456789ABCDEFGHIJKLMNOPQRSTUVWXYZ_abcdefghijklmnopqrstuvwxyz"

CharLower(c) ==
    IF \E i \in 1..26 : SubSeq(UpperCase, i, i) = c
    THEN LET i == CHOOSE k \in 1..26 : SubSeq(UpperCase, k, k) = c IN SubSeq(LowerCase, i, i)
    ELSE c

RECURSIVE Lower(_)
\* str.lower()
Lower(text) ==
    IF text = "" THEN ""
    ELSE CharLower(SubSeq(text, 1, 1)) \o Lower(SubSeq(text, 2, Len(text)))

CodeOf(c) == CHOOSE i \in 1..Len(CodePoints) : SubSeq(CodePoints, i, i) = c

RECURSIVE StrLess(_, _)
\* a < b on Python strings
StrLess(a, b) ==
    IF b = "" THEN FALSE
    ELSE IF a = "" THEN TRUE
    ELSE LET ca == CodeOf(SubSeq(a, 1, 1))
             cb == CodeOf(SubSeq(b, 1, 1))
         IN IF ca # cb THEN ca < cb
            ELSE StrLess(SubSeq(a, 2, Len(a)), SubSeq(b, 2, Len(b)))

RECURSIVE CountChar(_, _)
\* text.count(c) for a single character
CountChar(text, c) ==
    IF text = "" THEN 0
    ELSE (IF SubSeq(text, 1, 1) = c THEN 1 ELSE 0) + CountChar(SubSeq(text, 2, Len(text)), c)

(***************************************************************************)
(* The table names of the models under analysis.  What the code derives    *)
(* from a name alone is tabulated once per name.                           *)
(***************************************************************************)
TableCatalogue ==
    {"Brand", "Calc Options", "Calendar", "Category", "City", "Customer", "Date",
     "DateTableTemplate_abc", "Dim_City", "Dim_Fact_Map", "Dim_Region", "Dim_Store", "Fact_Sales",
     "Ghost", "Param", "Product", "ProductCategory", "ProductDetail", "Region", "Sales", "Scenario", "Store",
     "Supplier", "Vendor", "Warehouse", "_Measures"}

\* table_name.lower()
name_lower == [t \in TableCatalogue |-> Lower(t)]

\* the position of a name in sorted(TableCatalogue)
NameRank == [t \in TableCatalogue |-> Cardinality({u \in TableCatalogue : StrLess(u, t)})]

\* a < b on table names
NameLess(a, b) == NameRank[a] < NameRank[b]

RECURSIVE SortedSeq(_)
\* sorted(S) of a set of names
SortedSeq(S) ==
    IF S = {} THEN <<>>
    ELSE LET m == CHOOSE x \in S : \A y \in S \ {x} : NameLess(x, y)
         IN <<m>> \o SortedSeq(S \ {m})

RECURSIVE InsertSorted(_, _)
InsertSorted(x, s) ==
    IF s = <<>> THEN <<x>>
    ELSE IF NameLess(x, Head(s)) THEN <<x>> \o s
    ELSE <<Head(s)>> \o InsertSorted(x, Tail(s))

RECURSIVE SortedList(_)
\* sorted(list): duplicates kept
SortedList(s) == IF s = <<>> THEN <<>> ELSE InsertSorted(Head(s), SortedList(Tail(s)))

RECURSIVE ReplaceAll(_, _)
\* text.replace(old, ''): every non-overlapping occurrence removed, left to right
ReplaceAll(text, old) ==
    IF Len(text) < Len(old) \/ old = "" THEN text
    ELSE IF StartsWith(text, old) THEN ReplaceAll(SubSeq(text, Len(old) + 1, Len(text)), old)
    ELSE SubSeq(text, 1, 1) \o ReplaceAll(SubSeq(text, 2, Len(text)), old)

\* text.split(sep)[0]
BeforeFirst(text, sep) ==
    IF Contains(text, sep)
    THEN LET i == CHOOSE k \in 1..(Len(text) - Len(sep) + 1) :
                     /\ SubSeq(text, k, k + Len(sep) - 1) = sep
                     /\ \A j \in 1..(k - 1) : SubSeq(text, j, j + Len(sep) - 1) # sep
         IN SubSeq(text, 1, i - 1)
    ELSE text

RECURSIVE Split(_, _)
\* text.split(sep) as a sequence
Split(text, sep) ==
    IF Contains(text, sep)
    THEN LET first == BeforeFirst(text, sep)
         IN <<first>> \o Split(SubSeq(text, Len(first) + Len(sep) + 1, Len(text)), sep)
    ELSE <<text>>

(***************************************************************************)
(* Python dicts keep insertion order: keys is that order, val the mapping. *)
(***************************************************************************)
EmptyDict == [keys |-> <<>>, val |-> <<>>]

HasKey(d, k) == k \in DOMAIN d.val

\* d.get(k, default)
DictGet(d, k, default) == IF HasKey(d, k) THEN d.val[k] ELSE default

\* d[k] = v : a new key goes last, an old key keeps its place
DictSet(d, k, v) ==
    [keys |-> IF HasKey(d, k) THEN d.keys ELSE Append(d.keys, k),
     val  |-> (k :> v) @@ d.val]

\* for x in S : a set of names is enumerated in the run's hash order
Enumerate(S, order) == Within(order, S)

(***************************************************************************)
(* RelationshipAnalyzer                                                    *)
(***************************************************************************)
\* one relationship record of parse_relationships_from_tmdl
Relationship(from, to, fromCard, toCard, crossFilter) ==
    [fromTable |-> from, toTable |-> to, fromCardinality |-> fromCard,
     toCardinality |-> toCard, crossFilteringBehavior |-> crossFilter]

\* connections.get(table, set())
Neighbours(conn, table) == DictGet(conn, table, {})

\* len(connections.get(table, set()))
ConnectionCount(conn, table) == Cardinality(Neighbours(conn, table))

\* stores one direction only
add_one_direction(conn, a, b) == DictSet(conn, a, Neighbours(conn, a) \cup {b})

\* connections[a].add(b); connections[b].add(a)
add_connection(conn, a, b) ==
    LET c1 == DictSet(conn, a, Neighbours(conn, a) \cup {b})
    IN DictSet(c1, b, Neighbours(c1, b) \cup {a})

\* the body of the loop of build_relationship_graph
graph_add_relationship(conn, rel, all_tables) ==
    IF rel.fromTable # "" /\ rel.toTable # ""
       /\ rel.fromTable \in all_tables /\ rel.toTable \in all_tables
    THEN add_connection(conn, rel.fromTable, rel.toTable)
    ELSE conn

RECURSIVE graph_from(_, _, _)
graph_from(conn, relationships, all_tables) ==
    IF relationships = <<>> THEN conn
    ELSE graph_from(graph_add_relationship(conn, Head(relationships), all_tables),
                    Tail(relationships), all_tables)

build_relationship_graph(relationships, table_names) ==
    graph_from(EmptyDict, relationships, Range(table_names))

UNREACHABLE == 999

\* the distance of the table being expanded, without the edge to its neighbour
current_distance(distance) == distance

\* return distance + 1 : a neighbour of the table being expanded is a fact
found_distance(distance) == distance + 1

RECURSIVE scan_neighbours(_, _, _, _, _)
\* the loop over connections.get(current, set()): stops at the first neighbour
\* that is a fact, otherwise queues each neighbour not visited yet
scan_neighbours(neighbours, fact_tables, visited, queue, distance) ==
    IF neighbours = <<>> THEN [found |-> FALSE, queue |-> queue]
    ELSE IF Head(neighbours) \in fact_tables THEN [found |-> TRUE, queue |-> queue]
    ELSE scan_neighbours(Tail(neighbours), fact_tables, visited,
                         IF Head(neighbours) \notin visited
                         THEN Append(queue, <<Head(neighbours), distance + 1>>)
                         ELSE queue,
                         distance)

\* one iteration of `while queue` on the search state [queue, visited, result]
bfs_step(st, conn, fact_tables, order) ==
    LET current  == st.queue[1][1]
        distance == st.queue[1][2]
        rest     == Tail(st.queue)
    IN IF current \in st.visited
       THEN [st EXCEPT !.queue = rest]
       ELSE LET scan == scan_neighbours(Enumerate(Neighbours(conn, current), order),
                                        fact_tables, st.visited \cup {current}, rest, distance)
            IN [queue   |-> scan.queue,
                visited |-> st.visited \cup {current},
                result  |-> IF scan.found THEN <<found_distance(distance)>> ELSE <<>>]

RECURSIVE bfs_run(_, _, _, _)
bfs_run(st, conn, fact_tables, order) ==
    IF st.result # <<>> THEN st.result[1]
    ELSE IF st.queue = <<>> THEN UNREACHABLE
    ELSE bfs_run(bfs_step(st, conn, fact_tables, order), conn, fact_tables, order)

bfs_start(table_name) == [queue |-> <<<<table_name, 0>>>>, visited |-> {}, result |-> <<>>]

calculate_distance_to_facts(table_name, conn, fact_tables, order) ==
    IF table_name \in fact_tables THEN 0
    ELSE bfs_run(bfs_start(table_name), conn, fact_tables, order)

\* tables whose neighbour set holds table_name, other than itself
get_downstream_connections(table_name, conn) ==
    {other \in DOMAIN conn.val : table_name \in conn.val[other] /\ other # table_name}

get_upstream_connections(table_name, conn) == Neighbours(conn, table_name)

is_star_schema_table(table_name, conn, fact_tables) ==
    LET upstream   == get_upstream_connections(table_name, conn)
        downstream == get_downstream_connections(table_name, conn)
    IN /\ \E c \in upstream : c \in fact_tables
       /\ downstream = {}

\* extension_indicators of _determine_extension_by_universal_naming
extension_indicators ==
    {"list", "attribute", "detail", "extended", "profile", "program",
     "portfolio", "category", "type", "option", "meta", "extra",
     "additional", "supplemental", "auxiliary", "secondary", "properties",
     "config", "configuration", "settings", "parameters", "tags",
     "classifications", "hierarchy", "tree", "node", "leaf"}

\* 100 * (score + underscores * 0.5 + length * 0.01): exact for names shorter
\* than 50 characters, where two different sums never round to the same float
naming_total_score(table) ==
    100 * Cardinality({ind \in extension_indicators : Contains(name_lower[table], ind)})
    + 50 * CountChar(table, "_") + Len(table)

naming_scores == [t \in TableCatalogue |-> naming_total_score(t)]

\* returns <<extension, base>>
determine_extension_by_universal_naming(table_a, table_b) ==
    LET a_total == naming_scores[table_a]
        b_total == naming_scores[table_b]
    IN IF a_total > b_total THEN <<table_a, table_b>>
       ELSE IF b_total > a_total THEN <<table_b, table_a>>
       ELSE IF NameLess(table_b, table_a) THEN <<table_a, table_b>>
       ELSE <<table_b, table_a>>

MaxExtensionConnections == 6

\* accepts every candidate
accept_extension_pattern(extension_table, base_table, conn) == TRUE

validate_extension_pattern(extension_table, base_table, conn) ==
    LET ext_connections  == ConnectionCount(conn, extension_table)
        base_connections == ConnectionCount(conn, base_table)
    IN IF ext_connections > base_connections THEN FALSE
       ELSE IF extension_table \notin Neighbours(conn, base_table) THEN FALSE
       ELSE IF ext_connections > MaxExtensionConnections THEN FALSE
       ELSE IF base_connections = 0 THEN FALSE
       ELSE TRUE

is_bidirectional(rel) == rel.crossFilteringBehavior = "bothDirections"

has_one_cardinality(rel) == rel.fromCardinality = "one" \/ rel.toCardinality = "one"

\* Step 1 of identify_extension_tables_universal: the candidate of one record
\* (<<>> when the record is no candidate)
extension_candidate(rel) ==
    IF rel.fromTable = "" \/ rel.toTable = "" THEN <<>>
    ELSE IF is_bidirectional(rel) \/ has_one_cardinality(rel)
    THEN <<[table_a  |-> rel.fromTable,
            table_b  |-> rel.toTable,
            strength |-> IF is_bidirectional(rel) /\ has_one_cardinality(rel) THEN 3
                         ELSE IF is_bidirectional(rel) THEN 2 ELSE 1,
            detection_reasons |->
                IF is_bidirectional(rel) /\ has_one_cardinality(rel)
                THEN <<"bidirectional_and_one_cardinality">>
                ELSE IF is_bidirectional(rel) THEN <<"bidirectional_filtering">>
                ELSE <<"one_cardinality_only">>]>>
    ELSE <<>>

RECURSIVE one_to_one_candidates(_)
one_to_one_candidates(relationships) ==
    IF relationships = <<>> THEN <<>>
    ELSE extension_candidate(Head(relationships)) \o one_to_one_candidates(Tail(relationships))

\* Step 2: which table of the pair is the extension, <<extension, base, method>>
determine_extension(candidate, conn) ==
    LET connections_a == ConnectionCount(conn, candidate.table_a)
        connections_b == ConnectionCount(conn, candidate.table_b)
    IN IF connections_a < connections_b
       THEN <<candidate.table_a, candidate.table_b, "fewer_connections">>
       ELSE IF connections_b < connections_a
       THEN <<candidate.table_b, candidate.table_a, "fewer_connections">>
       ELSE determine_extension_by_universal_naming(candidate.table_a, candidate.table_b)
            \o <<"naming_heuristics">>

\* Steps 2 and 3 for one candidate: the extensions dict after it
record_extension(extensions, candidate, conn) ==
    LET det == determine_extension(candidate, conn)
    IN IF validate_extension_pattern(det[1], det[2], conn)
       THEN DictSet(extensions, det[1],
                    [base_table |-> det[2], detection_method |-> candidate.detection_reasons,
                     determination_method |-> det[3], confidence |-> candidate.strength])
       ELSE extensions

RECURSIVE record_extensions(_, _, _)
record_extensions(extensions, candidates, conn) ==
    IF candidates = <<>> THEN extensions
    ELSE record_extensions(record_extension(extensions, Head(candidates), conn),
                           Tail(candidates), conn)

identify_extension_tables_universal(relationships, conn) ==
    record_extensions(EmptyDict, one_to_one_candidates(relationships), conn)

(***************************************************************************)
(* The TMDL file of each table, as its stripped lines.  "Calc Options" and *)
(* "Scenario" are calculation groups, "_Measures" holds measures and no    *)
(* column, every other table is a plain two-column table.                  *)
(***************************************************************************)
Tmdl ==
    [t \in TableCatalogue |->
        IF t = "Calc Options"
        THEN <<"table 'Calc Options'", "calculationGroup", "calculationItem Current = SELECTEDMEASURE()",
               "column Option", "column Ordinal">>
        ELSE IF t = "Scenario"
        THEN <<"table Scenario", "calculationGroup", "calculationItem Actual = SELECTEDMEASURE()",
               "column Name", "column Ordinal">>
        ELSE IF t = "_Measures"
        THEN <<"table _Measures", "measure Total = SUM(Fact_Sales[Amount])", "formatString: 0">>
        ELSE <<"table " \o t, "column Id", "column Name">>]

\* pattern in content
InContent(t, pattern) == \E i \in 1..Len(Tmdl[t]) : Contains(Tmdl[t][i], pattern)

RECURSIVE JoinLines(_)
JoinLines(lines) ==
    IF lines = <<>> THEN ""
    ELSE IF Len(lines) = 1 THEN lines[1]
    ELSE lines[1] \o "\n" \o JoinLines(Tail(lines))

\* 'expression:' in content[content.find(line):content.find(line) + 200]
expression_follows(t, line) ==
    LET content == JoinLines(Tmdl[t])
        at == CHOOSE i \in 1..Len(content) :
                  /\ i + Len(line) - 1 <= Len(content)
                  /\ SubSeq(content, i, i + Len(line) - 1) = line
                  /\ \A j \in 1..(i - 1) : SubSeq(content, j, Min2(j + Len(line) - 1, Len(content))) # line
    IN Contains(SubSeq(content, at, Min2(at + 199, Len(content))), "expression:")

\* the lines that identify_metrics_tables counts as regular columns
regular_column_count(t) ==
    Cardinality({i \in 1..Len(Tmdl[t]) :
        LET line == Tmdl[t][i]
        IN /\ StartsWith(line, "column ")
           /\ (Contains(line, "dataType:") \/ Contains(line, "type:")) => ~expression_follows(t, line)})

\* identify_auto_date_tables, per table
is_auto_date_table(t) ==
    \/ StartsWith(name_lower[t], "datetabletemplate_")
    \/ StartsWith(name_lower[t], "localdatetable_")
    \/ \E pattern \in {"__PBI_TemplateDateTable = true", "__PBI_LocalDateTable = true",
                       "showAsVariationsOnly"} : InContent(t, pattern)
    \/ /\ InContent(t, "isHidden")
       /\ InContent(t, "'Date Hierarchy'") \/ InContent(t, "\"Date Hierarchy\"")
       /\ InContent(t, "Calendar(")

AutoDateNames == {t \in TableCatalogue : is_auto_date_table(t)}

identify_auto_date_tables(table_names) == Within(table_names, AutoDateNames)

time_period_indicators ==
    {"period", "time", "date", "calendar", "fiscal", "quarter", "month", "year",
     "cycle", "season", "week", "day", "hour", "minute", "interval",
     "duration", "span", "range", "tempo", "zeit", "temps", "hora"}

TimePeriodNames == {t \in TableCatalogue : AnyIn(name_lower[t], time_period_indicators)}

identify_time_period_tables(table_names, calendar_tables, conn) ==
    SelectSeq(table_names, LAMBDA t :
        \/ t \in TimePeriodNames
        \/ \E cal \in Range(calendar_tables) : cal \in Neighbours(conn, t))

identify_calendar_connected_specials(table_names, calendar_tables, conn, excluded_tables) ==
    SelectSeq(table_names, LAMBDA t :
        /\ t \notin excluded_tables
        /\ Neighbours(conn, t) \cap Range(calendar_tables) # {}
        /\ Neighbours(conn, t) \ Range(calendar_tables) = {})

\* the indicators of identify_parameter_tables that table names can hold
parameter_indicators ==
    {"param", "parameter", "config", "setting", "option", "preference",
     "variable", "constant", "lookup", "reference", "master", "parametro"}

is_parameter_table(t) ==
    \/ StartsWith(t, ".")
    \/ AnyIn(name_lower[t], parameter_indicators)
    \/ \E pattern \in {"extendedProperty ParameterMetadata", "isHidden = true", "type = Parameter"} :
          InContent(t, pattern)

ParameterNames == {t \in TableCatalogue : is_parameter_table(t)}

identify_parameter_tables(table_names) == Within(table_names, ParameterNames)

CalculationGroupNames == {t \in TableCatalogue : InContent(t, "calculationGroup")}

identify_calculation_groups(table_names) == Within(table_names, CalculationGroupNames)

\* what identify_metrics_tables asks of a table apart from having no connection
is_metrics_shaped(t) ==
    /\ regular_column_count(t) <= 1
    /\ regular_column_count(t) = 0 =>
          /\ InContent(t, "measure ")
          /\ InContent(t, "lineageTag:") \/ InContent(t, "formatString:")
    /\ \/ AnyPrefix(t, {"_", ".", "*", "-", "#"}) /\ Contains(name_lower[t], "measure")
       \/ AnyIn(name_lower[t], {"metric", "measure", "kpi", "score"})

MetricsShapedNames == {t \in TableCatalogue : is_metrics_shaped(t)}

identify_metrics_tables(table_names, conn) ==
    SelectSeq(table_names, LAMBDA t : ConnectionCount(conn, t) = 0 /\ t \in MetricsShapedNames)

disconnected_indicators ==
    {"parameter", "config", "setting", "lookup", "reference", "master",
     "static", "constant", "readonly", "system"}

is_special_disconnected(t) ==
    \/ StartsWith(t, ".")
    \/ AnyIn(name_lower[t], disconnected_indicators)
    \/ \E pattern \in {"extendedProperty ParameterMetadata", "calculationGroup", "isHidden = true"} :
          InContent(t, pattern)

SpecialDisconnectedNames == {t \in TableCatalogue : is_special_disconnected(t)}

identify_special_disconnected_tables(table_names) == Within(table_names, SpecialDisconnectedNames)

(***************************************************************************)
(* TableCategorizer.calculate_table_score and categorize_tables            *)
(***************************************************************************)
fact_indicators ==
    {"fact", "trans", "event", "activity", "record", "log", "history",
     "operation", "process", "action", "movement", "entry", "line",
     "detail", "item", "occurrence", "instance", "measure"}

dim_indicators ==
    {"dim", "dimension", "master", "lookup", "reference", "category",
     "type", "class", "group", "entity", "object", "subject"}

strong_fact_patterns == {"fact_", "_fact", "fact ", " fact"}

dim_prefixes == {"d_", "dim_", "dim-", "dim ", "master_", "ref_", "lookup_"}

calendar_indicators == {"calendar", "date", "time", "period"}

\* the part of the score that the name alone decides
name_score(t) ==
    [fact |-> (IF AnyIn(name_lower[t], strong_fact_patterns) THEN 25 ELSE 0)
              + (IF AnyIn(name_lower[t], fact_indicators) THEN 15 ELSE 0),
     dim |-> (IF AnyIn(name_lower[t], dim_indicators) THEN 25 ELSE 0)
             + (IF AnyPrefix(name_lower[t], dim_prefixes) THEN 20 ELSE 0),
     explicit_fact |-> AnyIn(name_lower[t], strong_fact_patterns),
     explicit_dim |-> AnyPrefix(name_lower[t], {"dim_", "dim-", "dim ", "d_"}),
     is_calendar |-> AnyIn(name_lower[t], calendar_indicators)]

name_scores == [t \in TableCatalogue |-> name_score(t)]

connection_score(connection_count) ==
    IF connection_count >= 5 THEN 15
    ELSE IF connection_count >= 3 THEN 10
    ELSE IF connection_count >= 2 THEN 5
    ELSE IF connection_count = 1 THEN 0 - 3
    ELSE 0 - 5

\* a scoring that applies the connection-count rule before the naming rules
score_by_connections_first(table_name, conn) ==
    LET connection_count == ConnectionCount(conn, table_name)
        ns == name_scores[table_name]
    IN [table_name |-> table_name, connection_count |-> connection_count,
        fact_score |-> ns.fact, dim_score |-> ns.dim, is_calendar |-> ns.is_calendar,
        classification |-> IF table_name \in SpecialDisconnectedNames THEN "disconnected"
                           ELSE IF connection_count >= 3 THEN "fact"
                           ELSE IF ns.explicit_fact THEN "fact"
                           ELSE IF ns.explicit_dim THEN "dimension"
                           ELSE IF ns.fact > ns.dim THEN "fact" ELSE "dimension"]

calculate_table_score(table_name, conn) ==
    LET connection_count == ConnectionCount(conn, table_name)
        ns == name_scores[table_name]
        cs == connection_score(connection_count)
        total_fact_score == ns.fact + Max2(0, cs)
        total_dim_score == ns.dim + Max2(0, 0 - cs)
        base == [table_name |-> table_name, connection_count |-> connection_count]
    IN IF table_name \in SpecialDisconnectedNames
       THEN base @@ [fact_score |-> 0, dim_score |-> 0, is_calendar |-> FALSE,
                     classification |-> "disconnected"]
       ELSE IF ns.explicit_fact
       THEN base @@ [fact_score |-> Max2(total_fact_score, total_dim_score + 50),
                     dim_score |-> total_dim_score, is_calendar |-> ns.is_calendar,
                     classification |-> "fact"]
       ELSE IF ns.explicit_dim
       THEN base @@ [fact_score |-> total_fact_score,
                     dim_score |-> Max2(total_dim_score, total_fact_score + 10),
                     is_calendar |-> ns.is_calendar, classification |-> "dimension"]
       ELSE IF connection_count >= 3
       THEN base @@ [fact_score |-> total_fact_score + 20, dim_score |-> total_dim_score,
                     is_calendar |-> ns.is_calendar, classification |-> "fact"]
       ELSE LET biased == IF total_fact_score > 0 /\ connection_count >= 2
                          THEN total_fact_score + 5 ELSE total_fact_score
            IN base @@ [fact_score |-> biased, dim_score |-> total_dim_score,
                        is_calendar |-> ns.is_calendar,
                        classification |-> IF biased > total_dim_score THEN "fact"
                                           ELSE "dimension"]

\* Phase 0 that also drops the tables without a connection
categorize_connected_specials(all_names, conn) ==
    LET auto_date_tables == identify_auto_date_tables(all_names)
        table_names == SelectSeq(Without(all_names, Range(auto_date_tables)),
                                 LAMBDA t : ConnectionCount(conn, t) # 0)
    IN [table_names |-> table_names,
        auto_date_tables |-> auto_date_tables,
        parameter_tables |-> identify_parameter_tables(table_names),
        calculation_groups |-> identify_calculation_groups(table_names),
        metrics_tables |-> identify_metrics_tables(table_names, conn)]

\* Phases 0 and 1: the auto date tables leave table_names, then the three special lists
categorize_specials(all_names, conn) ==
    LET auto_date_tables == identify_auto_date_tables(all_names)
        table_names == Without(all_names, Range(auto_date_tables))
    IN [table_names |-> table_names,
        auto_date_tables |-> auto_date_tables,
        parameter_tables |-> identify_parameter_tables(table_names),
        calculation_groups |-> identify_calculation_groups(table_names),
        metrics_tables |-> identify_metrics_tables(table_names, conn)]

phase1_tables(c) ==
    Range(c.parameter_tables) \cup Range(c.calculation_groups) \cup Range(c.metrics_tables)

\* list.sort(key=count, reverse=True): stable, larger counts first
RECURSIVE sort_by_connections_desc(_, _)
sort_by_connections_desc(names, conn) ==
    IF names = <<>> THEN <<>>
    ELSE LET sorted == sort_by_connections_desc(SubSeq(names, 1, Len(names) - 1), conn)
             x == names[Len(names)]
             k == Cardinality({i \in 1..Len(sorted) :
                      ConnectionCount(conn, sorted[i]) >= ConnectionCount(conn, x)})
         IN SubSeq(sorted, 1, k) \o <<x>> \o SubSeq(sorted, k + 1, Len(sorted))

\* Phase 2: facts by score, else the most connected tables
categorize_facts(c, conn) ==
    LET scored == SelectSeq(c.table_names, LAMBDA t :
                      /\ t \notin phase1_tables(c)
                      /\ ConnectionCount(conn, t) # 0
                      /\ calculate_table_score(t, conn).classification = "fact")
        connection_counts == sort_by_connections_desc(Without(c.table_names, phase1_tables(c)), conn)
        fallback == SelectSeq(SubSeq(connection_counts, 1, Min2(10, Len(connection_counts))),
                              LAMBDA t : ConnectionCount(conn, t) >= 2)
    IN c @@ [fact_tables |-> IF scored # <<>> THEN scored ELSE fallback]

\* a leveling that stops at three levels
level_bucket_three_levels(t, conn, potential_facts, order) ==
    IF name_scores[t].is_calendar THEN "calendar_tables"
    ELSE IF t \in SpecialDisconnectedNames THEN "parameter_tables"
    ELSE IF ConnectionCount(conn, t) = 0 THEN "disconnected_tables"
    ELSE LET distance == calculate_distance_to_facts(t, conn, potential_facts, order)
         IN IF distance = 1 THEN "l1_dimensions"
            ELSE IF distance = 2 THEN "l2_dimensions"
            ELSE "l3_dimensions"

\* Phase 3: the bucket one unprocessed table goes to
level_bucket(t, conn, potential_facts, order) ==
    IF name_scores[t].is_calendar THEN "calendar_tables"
    ELSE IF t \in SpecialDisconnectedNames THEN "parameter_tables"
    ELSE IF ConnectionCount(conn, t) = 0 THEN "disconnected_tables"
    ELSE IF is_star_schema_table(t, conn, potential_facts) THEN "l1_dimensions"
    ELSE LET distance == calculate_distance_to_facts(t, conn, potential_facts, order)
         IN IF distance = 1 THEN "l1_dimensions"
            ELSE IF distance = 2 THEN "l2_dimensions"
            ELSE IF distance = 3 THEN "l3_dimensions"
            ELSE IF distance >= 4 THEN "l4_plus_dimensions"
            ELSE "l1_dimensions"

categorize_levels(c, conn, order) ==
    LET processed_tables == phase1_tables(c) \cup Range(c.fact_tables)
        todo == Without(c.table_names, processed_tables)
        bucket == [t \in Range(todo) |-> level_bucket(t, conn, Range(c.fact_tables), order)]
        into(b) == SelectSeq(todo, LAMBDA t : bucket[t] = b)
    IN [l1_dimensions |-> into("l1_dimensions"),
        l2_dimensions |-> into("l2_dimensions"),
        l3_dimensions |-> into("l3_dimensions"),
        l4_plus_dimensions |-> into("l4_plus_dimensions"),
        calendar_tables |-> into("calendar_tables"),
        parameter_tables |-> c.parameter_tables \o into("parameter_tables"),
        disconnected_tables |-> into("disconnected_tables")] @@ c

\* RelationshipAnalyzer.find_dimension_extensions: the extensions whose two
\* tables are both in a dimension level
level_of(c, table) ==
    IF InSeq(table, c.l4_plus_dimensions) THEN 4
    ELSE IF InSeq(table, c.l3_dimensions) THEN 3
    ELSE IF InSeq(table, c.l2_dimensions) THEN 2
    ELSE 1

RECURSIVE dimension_extensions_from(_, _, _, _)
dimension_extensions_from(found, universal_extensions, i, c) ==
    IF i > Len(universal_extensions.keys) THEN found
    ELSE LET extension_table == universal_extensions.keys[i]
             extension_info == universal_extensions.val[extension_table]
             base_table == extension_info.base_table
             all_dimensions == Range(c.l1_dimensions) \cup Range(c.l2_dimensions)
                               \cup Range(c.l3_dimensions) \cup Range(c.l4_plus_dimensions)
         IN dimension_extensions_from(
                IF extension_table \in all_dimensions /\ base_table \in all_dimensions
                THEN DictSet(found, extension_table,
                             <<base_table, "extension", level_of(c, base_table),
                               level_of(c, extension_table), extension_info.confidence,
                               extension_info.detection_method>>)
                ELSE found,
                universal_extensions, i + 1, c)

find_dimension_extensions(relationships, conn, c) ==
    dimension_extensions_from(EmptyDict, identify_extension_tables_universal(relationships, conn), 1, c)

\* Phase 4, one extension: out of its level list, into the level after its base
reposition_extension(c, extension_table, base_table) ==
    LET l1 == RemoveFirst(c.l1_dimensions, extension_table)
        l2 == RemoveFirst(c.l2_dimensions, extension_table)
        l3 == RemoveFirst(c.l3_dimensions, extension_table)
        l4 == RemoveFirst(c.l4_plus_dimensions, extension_table)
        target == IF InSeq(base_table, l1) THEN 2
                  ELSE IF InSeq(base_table, l2) THEN 3
                  ELSE IF InSeq(base_table, l3) THEN 4
                  ELSE 2
    IN [l1_dimensions |-> l1,
        l2_dimensions |-> IF target = 2 THEN Append(l2, extension_table) ELSE l2,
        l3_dimensions |-> IF target = 3 THEN Append(l3, extension_table) ELSE l3,
        l4_plus_dimensions |-> IF target = 4 THEN Append(l4, extension_table) ELSE l4] @@ c

RECURSIVE reposition_extensions(_, _, _)
reposition_extensions(c, dimension_extensions, i) ==
    IF i > Len(dimension_extensions.keys) THEN c
    ELSE LET extension_table == dimension_extensions.keys[i]
         IN reposition_extensions(
                reposition_extension(c, extension_table,
                                     dimension_extensions.val[extension_table][1]),
                dimension_extensions, i + 1)

PlacementBuckets ==
    <<"fact_tables", "l1_dimensions", "l2_dimensions", "l3_dimensions", "l4_plus_dimensions",
      "calendar_tables", "metrics_tables", "parameter_tables", "calculation_groups",
      "disconnected_tables">>

\* fact_tables + l1_dimensions + ... + disconnected_tables
RECURSIVE all_categorized(_, _)
all_categorized(c, i) ==
    IF i > Len(PlacementBuckets) THEN <<>>
    ELSE c[PlacementBuckets[i]] \o all_categorized(c, i + 1)

\* Phase 4, final verification and the returned dict
categorize_extensions(c, relationships, conn, order) ==
    LET dimension_extensions == find_dimension_extensions(relationships, conn, c)
        moved == reposition_extensions(c, dimension_extensions, 1)
        missing_tables == Range(moved.table_names) \ Range(all_categorized(moved, 1))
        verified == [disconnected_tables |->
                        moved.disconnected_tables \o Enumerate(missing_tables, order)] @@ moved
    IN [fact_tables |-> verified.fact_tables,
        l1_dimensions |-> verified.l1_dimensions,
        l2_dimensions |-> verified.l2_dimensions,
        l3_dimensions |-> verified.l3_dimensions,
        l4_plus_dimensions |-> verified.l4_plus_dimensions,
        calendar_tables |-> verified.calendar_tables,
        metrics_tables |-> verified.metrics_tables,
        parameter_tables |-> verified.parameter_tables,
        calculation_groups |-> verified.calculation_groups,
        disconnected_tables |-> verified.disconnected_tables,
        dimension_tables |-> verified.l1_dimensions \o verified.l2_dimensions
                             \o verified.l3_dimensions \o verified.l4_plus_dimensions,
        dimension_extensions |-> dimension_extensions,
        auto_date_tables |-> verified.auto_date_tables]

categorize_tables(all_names, relationships, conn, order) ==
    categorize_extensions(
        categorize_levels(categorize_facts(categorize_specials(all_names, conn), conn), conn, order),
        relationships, conn, order)

(***************************************************************************)
(* DimensionOptimizer                                                      *)
(***************************************************************************)
\* list without its repeated elements (first occurrences stay)
Dedupe(s) == AtIndices(s, {i \in 1..Len(s) : \A j \in 1..(i - 1) : s[j] # s[i]})

\* tuple(sorted([table1, table2]))
SortedPair(table1, table2) ==
    IF NameLess(table2, table1) THEN <<table2, table1>> ELSE <<table1, table2>>

hierarchical_suffixes == {"tree", "detail", "category", "attribute", "extended", "child"}

detect_naming_hierarchy(table1, table2) ==
    \E suffix \in hierarchical_suffixes :
        /\ Contains(name_lower[table2], suffix)
        /\ \E part \in Range(Split(BeforeFirst(name_lower[table2], suffix), "_")) :
              Len(part) > 2 /\ Contains(name_lower[table1], part)

business_hierarchies ==
    {<<"property", "unit">>, <<"account", "accountcategory">>, <<"job", "jobdetail">>,
     <<"tenant", "tenantprogram">>, <<"unit", "unittype">>, <<"building", "unit">>,
     <<"portfolio", "property">>}

detect_business_hierarchy(table1, table2) ==
    \E h \in business_hierarchies :
        Contains(name_lower[table1], h[1]) /\ Contains(name_lower[table2], h[2])

\* the pairs that names alone make parent and child
NamedHierarchies ==
    {p \in TableCatalogue \X TableCatalogue :
        detect_naming_hierarchy(p[1], p[2]) \/ detect_business_hierarchy(p[1], p[2])}

is_parent_child(parent_table, child_table, conn) ==
    /\ parent_table # child_table
    /\ child_table \in Neighbours(conn, parent_table)
    /\ \/ ConnectionCount(conn, parent_table) > ConnectionCount(conn, child_table)
       \/ <<parent_table, child_table>> \in NamedHierarchies

detect_parent_child_relationships(table_list, conn) ==
    LET n == Len(table_list)
        all_pairs == [k \in 1..(n * n) |->
                         <<table_list[((k - 1) \div n) + 1], table_list[((k - 1) % n) + 1]>>]
    IN Dedupe(SelectSeq(all_pairs, LAMBDA p : is_parent_child(p[1], p[2], conn)))

\* the pairs that one table of identify_general_connected_pairs adds
general_pairs_of(table1, table_list, conn, order) ==
    LET connected_tables == SelectSeq(Enumerate(Neighbours(conn, table1), order),
                                      LAMBDA table2 : InSeq(table2, table_list) /\ table1 # table2)
    IN [k \in 1..Len(connected_tables) |-> SortedPair(table1, connected_tables[k])]

RECURSIVE general_pairs_from(_, _, _, _)
general_pairs_from(i, table_list, conn, order) ==
    IF i > Len(table_list) THEN <<>>
    ELSE general_pairs_of(table_list[i], table_list, conn, order)
         \o general_pairs_from(i + 1, table_list, conn, order)

identify_general_connected_pairs(table_list, conn, order) ==
    Dedupe(general_pairs_from(1, table_list, conn, order))

\* identify_connected_pairs: st = [pairs, processed] after table_list[i..]
RECURSIVE connected_pairs_from(_, _, _, _, _)
connected_pairs_from(st, i, table_list, conn, order) ==
    IF i > Len(table_list) THEN st.pairs
    ELSE LET table1 == table_list[i]
             found == SelectSeq(Enumerate(Neighbours(conn, table1), order),
                                LAMBDA table2 : /\ InSeq(table2, table_list)
                                                /\ table2 # table1
                                                /\ ~InSeq(SortedPair(table1, table2), st.pairs))
         IN IF table1 \in st.processed \/ found = <<>>
            THEN connected_pairs_from(st, i + 1, table_list, conn, order)
            ELSE connected_pairs_from(
                     [pairs |-> Append(st.pairs, SortedPair(table1, Head(found))),
                      processed |-> st.processed \cup {table1, Head(found)}],
                     i + 1, table_list, conn, order)

identify_connected_pairs(table_list, conn, order) ==
    connected_pairs_from([pairs |-> <<>>, processed |-> {}], 1, table_list, conn, order)

\* sort_tables_by_connections: the time tables go to the top, last one first
RECURSIVE time_tables_first(_, _, _)
time_tables_first(st, time_period_tables, i) ==
    IF i > Len(time_period_tables) THEN st
    ELSE LET time_table == time_period_tables[i]
         IN time_tables_first(
                IF InSeq(time_table, st.remaining)
                THEN [sorted |-> <<time_table>> \o st.sorted,
                      remaining |-> RemoveFirst(st.remaining, time_table)]
                ELSE st,
                time_period_tables, i + 1)

\* a pair is taken together when both its tables still remain
RECURSIVE pairs_together(_, _, _)
pairs_together(st, pairs, i) ==
    IF i > Len(pairs) THEN st
    ELSE pairs_together(
             IF InSeq(pairs[i][1], st.remaining) /\ InSeq(pairs[i][2], st.remaining)
             THEN [sorted |-> st.sorted \o <<pairs[i][1], pairs[i][2]>>,
                   remaining |-> RemoveFirst(RemoveFirst(st.remaining, pairs[i][1]), pairs[i][2])]
             ELSE st,
             pairs, i + 1)

\* a sort that returns the grouped tables only and drops the remaining ones
sort_grouped_tables_only(table_list, conn, time_period_tables, order) ==
    IF Len(table_list) <= 1 THEN table_list
    ELSE LET timed == time_tables_first([sorted |-> <<>>, remaining |-> table_list],
                                        time_period_tables, 1)
             paired == pairs_together(timed,
                           detect_parent_child_relationships(timed.remaining, conn), 1)
             general == pairs_together(paired,
                           identify_general_connected_pairs(paired.remaining, conn, order), 1)
         IN general.sorted

sort_tables_by_connections(table_list, conn, time_period_tables, order) ==
    IF Len(table_list) <= 1 THEN table_list
    ELSE LET timed == time_tables_first([sorted |-> <<>>, remaining |-> table_list],
                                        time_period_tables, 1)
             paired == pairs_together(timed,
                           detect_parent_child_relationships(timed.remaining, conn), 1)
             general == pairs_together(paired,
                           identify_general_connected_pairs(paired.remaining, conn, order), 1)
         IN general.sorted \o general.remaining

\* optimize_dimension_placement: a time table goes to the top of the left side
RECURSIVE time_tables_left(_, _, _)
time_tables_left(sides, time_period_tables, i) ==
    IF i > Len(time_period_tables) THEN sides
    ELSE LET time_table == time_period_tables[i]
             left == sides[1]
             right == sides[2]
         IN time_tables_left(
                IF InSeq(time_table, right)
                THEN <<IF InSeq(time_table, left) THEN left ELSE <<time_table>> \o left,
                       RemoveFirst(right, time_table)>>
                ELSE IF InSeq(time_table, left)
                THEN <<<<time_table>> \o RemoveFirst(left, time_table), right>>
                ELSE sides,
                time_period_tables, i + 1)

\* the second table of a connected pair joins the side of the first
RECURSIVE pairs_same_side(_, _, _)
pairs_same_side(sides, special_pairs, i) ==
    IF i > Len(special_pairs) THEN sides
    ELSE LET table1 == special_pairs[i][1]
             table2 == special_pairs[i][2]
             left == sides[1]
             right == sides[2]
         IN pairs_same_side(
                IF InSeq(table1, left)
                THEN (IF InSeq(table2, right)
                      THEN <<Append(left, table2), RemoveFirst(right, table2)>> ELSE sides)
                ELSE IF InSeq(table1, right) /\ InSeq(table2, left)
                THEN <<RemoveFirst(left, table2), Append(right, table2)>>
                ELSE sides,
                special_pairs, i + 1)

\* <<left_l1_dimensions, right_l1_dimensions>>
optimize_dimension_placement(l1_dimensions, fact_tables, conn, calendar_tables, order) ==
    IF l1_dimensions = <<>> THEN <<<<>>, <<>>>>
    ELSE LET time_period_tables == identify_time_period_tables(l1_dimensions, calendar_tables, conn)
             special_pairs == identify_connected_pairs(l1_dimensions, conn, order)
             mid_point == Len(l1_dimensions) \div 2
             split == <<SubSeq(l1_dimensions, 1, mid_point),
                        SubSeq(l1_dimensions, mid_point + 1, Len(l1_dimensions))>>
             timed == time_tables_left(split, time_period_tables, 1)
             paired == pairs_same_side(timed, special_pairs, 1)
         IN <<sort_tables_by_connections(paired[1], conn, time_period_tables, order),
              sort_tables_by_connections(paired[2], conn, time_period_tables, order)>>

\* min(connected, key=connection count): the first of the smallest in set order
fewest_connections(connected, conn, order) ==
    LET candidates == Enumerate(connected, order)
        i == CHOOSE k \in 1..Len(candidates) :
                 /\ \A j \in 1..Len(candidates) :
                       ConnectionCount(conn, candidates[k]) <= ConnectionCount(conn, candidates[j])
                 /\ \A j \in 1..(k - 1) :
                       ConnectionCount(conn, candidates[j]) > ConnectionCount(conn, candidates[k])
    IN candidates[i]

\* the first table in set order with the most connections
most_connections(connected, conn, order) ==
    LET candidates == Enumerate(connected, order)
        i == CHOOSE k \in 1..Len(candidates) :
                 /\ \A j \in 1..Len(candidates) :
                       ConnectionCount(conn, candidates[k]) >= ConnectionCount(conn, candidates[j])
                 /\ \A j \in 1..(k - 1) :
                       ConnectionCount(conn, candidates[j]) < ConnectionCount(conn, candidates[k])
    IN candidates[i]

\* _get_primary_connection
get_primary_connection(connected_tables, conn, order) ==
    fewest_connections(connected_tables, conn, order)

\* st = [left, right, placed]: the table follows its partner's side
follow_partner(st, table, partner, left_partners, right_partners) ==
    IF InSeq(partner, left_partners)
    THEN [left |-> Append(st.left, table), right |-> st.right, placed |-> st.placed \cup {table}]
    ELSE IF InSeq(partner, right_partners)
    THEN [left |-> st.left, right |-> Append(st.right, table), placed |-> st.placed \cup {table}]
    ELSE st

\* Phase 1 of place_l2_dimensions_near_l1 and place_l3_dimensions_near_l2
RECURSIVE place_by_partner(_, _, _, _, _, _, _)
place_by_partner(st, tables_to_place, i, left_partners, right_partners, conn, order) ==
    IF i > Len(tables_to_place) THEN st
    ELSE LET table == tables_to_place[i]
             connected == Neighbours(conn, table) \cap (Range(left_partners) \cup Range(right_partners))
         IN place_by_partner(
                IF table \in st.placed \/ connected = {} THEN st
                ELSE follow_partner(st, table, fewest_connections(connected, conn, order),
                                    left_partners, right_partners),
                tables_to_place, i + 1, left_partners, right_partners, conn, order)

\* how many entries of a list are connected to the table
ConnectedEntries(list, table, conn) ==
    Cardinality({k \in 1..Len(list) : list[k] \in Neighbours(conn, table)})

\* Phase 2 of place_l2_dimensions_near_l1: by side score, else the shorter side
RECURSIVE place_by_side_score(_, _, _, _, _, _)
place_by_side_score(sides, unplaced, i, left_l1, right_l1, conn) ==
    IF i > Len(unplaced) THEN sides
    ELSE LET l2_table == unplaced[i]
             left_side_score == ConnectedEntries(left_l1 \o sides[1], l2_table, conn)
             right_side_score == ConnectedEntries(right_l1 \o sides[2], l2_table, conn)
             to_left == \/ left_side_score > right_side_score
                        \/ /\ left_side_score = right_side_score
                           /\ Len(sides[1]) <= Len(sides[2])
         IN place_by_side_score(
                IF to_left THEN <<Append(sides[1], l2_table), sides[2]>>
                ELSE <<sides[1], Append(sides[2], l2_table)>>,
                unplaced, i + 1, left_l1, right_l1, conn)

\* <<left_l2_dimensions, right_l2_dimensions>>
place_l2_dimensions_near_l1(l2_dimensions, left_l1_dimensions, right_l1_dimensions, conn, order) ==
    IF l2_dimensions = <<>> THEN <<<<>>, <<>>>>
    ELSE LET st == place_by_partner([left |-> <<>>, right |-> <<>>, placed |-> {}],
                                    l2_dimensions, 1, left_l1_dimensions, right_l1_dimensions,
                                    conn, order)
         IN place_by_side_score(<<st.left, st.right>>, Without(l2_dimensions, st.placed), 1,
                                left_l1_dimensions, right_l1_dimensions, conn)

\* the unplaced tables go to the shorter side
RECURSIVE balance_sides(_, _, _)
balance_sides(sides, unplaced, i) ==
    IF i > Len(unplaced) THEN sides
    ELSE balance_sides(
             IF Len(sides[1]) <= Len(sides[2]) THEN <<Append(sides[1], unplaced[i]), sides[2]>>
             ELSE <<sides[1], Append(sides[2], unplaced[i])>>,
             unplaced, i + 1)

move_table_to_left(table, sides) ==
    IF InSeq(table, sides[2]) THEN <<Append(sides[1], table), RemoveFirst(sides[2], table)>>
    ELSE sides

move_table_to_right(table, sides) ==
    IF InSeq(table, sides[1]) THEN <<RemoveFirst(sides[1], table), Append(sides[2], table)>>
    ELSE sides

RECURSIVE correct_misplacements(_, _, _)
correct_misplacements(sides, misplaced, i) ==
    IF i > Len(misplaced) THEN sides
    ELSE correct_misplacements(
             IF misplaced[i][2] = "left" THEN move_table_to_left(misplaced[i][1], sides)
             ELSE move_table_to_right(misplaced[i][1], sides),
             misplaced, i + 1)

\* <<>> or <<<<table, side it should be on>>>>
misplacement(table, actually_left, primary, left_partners) ==
    IF InSeq(primary, left_partners) /\ ~actually_left THEN <<<<table, "left">>>>
    ELSE IF ~InSeq(primary, left_partners) /\ actually_left THEN <<<<table, "right">>>>
    ELSE <<>>

RECURSIVE misplaced_l3_from(_, _, _, _, _, _, _)
misplaced_l3_from(i, left_l3, right_l3, left_l2, right_l2, conn, order) ==
    IF i > Len(left_l3 \o right_l3) THEN <<>>
    ELSE LET l3_table == (left_l3 \o right_l3)[i]
             connected_l2s == Neighbours(conn, l3_table) \cap Range(left_l2 \o right_l2)
         IN (IF connected_l2s = {} THEN <<>>
             ELSE misplacement(l3_table, InSeq(l3_table, left_l3),
                               get_primary_connection(connected_l2s, conn, order), left_l2))
            \o misplaced_l3_from(i + 1, left_l3, right_l3, left_l2, right_l2, conn, order)

find_misplaced_l3_tables(left_l3, right_l3, left_l2, right_l2, conn, order) ==
    misplaced_l3_from(1, left_l3, right_l3, left_l2, right_l2, conn, order)

\* <<left_l3_dimensions, right_l3_dimensions>>
place_l3_dimensions_near_l2(l3_dimensions, left_l2_dimensions, right_l2_dimensions, conn, order) ==
    IF l3_dimensions = <<>> THEN <<<<>>, <<>>>>
    ELSE LET st == place_by_partner([left |-> <<>>, right |-> <<>>, placed |-> {}],
                                    l3_dimensions, 1, left_l2_dimensions, right_l2_dimensions,
                                    conn, order)
             balanced == balance_sides(<<st.left, st.right>>, Without(l3_dimensions, st.placed), 1)
         IN correct_misplacements(
                balanced,
                find_misplaced_l3_tables(balanced[1], balanced[2], left_l2_dimensions,
                                         right_l2_dimensions, conn, order),
                1)

\* the loop of place_l4_dimensions_near_l3: L3 partners first, else L2 partners
RECURSIVE place_l4_by_partner(_, _, _, _, _, _, _, _, _)
place_l4_by_partner(st, l4_dimensions, i, left_l3, right_l3, left_l2, right_l2, conn, order) ==
    IF i > Len(l4_dimensions) THEN st
    ELSE LET l4_table == l4_dimensions[i]
             connected_l3s == Neighbours(conn, l4_table) \cap Range(left_l3 \o right_l3)
             connected_l2s == Neighbours(conn, l4_table) \cap Range(left_l2 \o right_l2)
         IN place_l4_by_partner(
                IF l4_table \in st.placed THEN st
                ELSE IF connected_l3s # {}
                THEN follow_partner(st, l4_table, fewest_connections(connected_l3s, conn, order),
                                    left_l3, right_l3)
                ELSE IF connected_l2s # {}
                THEN follow_partner(st, l4_table, fewest_connections(connected_l2s, conn, order),
                                    left_l2, right_l2)
                ELSE st,
                l4_dimensions, i + 1, left_l3, right_l3, left_l2, right_l2, conn, order)

RECURSIVE misplaced_l4_from(_, _, _, _, _, _, _, _, _)
misplaced_l4_from(i, left_l4, right_l4, left_l3, right_l3, left_l2, right_l2, conn, order) ==
    IF i > Len(left_l4 \o right_l4) THEN <<>>
    ELSE LET l4_table == (left_l4 \o right_l4)[i]
             connected_l3s == Neighbours(conn, l4_table) \cap Range(left_l3 \o right_l3)
             connected_l2s == Neighbours(conn, l4_table) \cap Range(left_l2 \o right_l2)
         IN (IF connected_l3s # {}
             THEN misplacement(l4_table, InSeq(l4_table, left_l4),
                               get_primary_connection(connected_l3s, conn, order), left_l3)
             ELSE IF connected_l2s # {}
             THEN misplacement(l4_table, InSeq(l4_table, left_l4),
                               get_primary_connection(connected_l2s, conn, order), left_l2)
             ELSE <<>>)
            \o misplaced_l4_from(i + 1, left_l4, right_l4, left_l3, right_l3, left_l2, right_l2,
                                 conn, order)

find_misplaced_l4_tables(left_l4, right_l4, left_l3, right_l3, left_l2, right_l2, conn, order) ==
    misplaced_l4_from(1, left_l4, right_l4, left_l3, right_l3, left_l2, right_l2, conn, order)

\* <<left_l4_dimensions, right_l4_dimensions>>
place_l4_dimensions_near_l3(l4_dimensions, left_l3, right_l3, left_l2, right_l2, conn, order) ==
    IF l4_dimensions = <<>> THEN <<<<>>, <<>>>>
    ELSE LET st == place_l4_by_partner([left |-> <<>>, right |-> <<>>, placed |-> {}],
                                       l4_dimensions, 1, left_l3, right_l3, left_l2, right_l2,
                                       conn, order)
             balanced == balance_sides(<<st.left, st.right>>, Without(l4_dimensions, st.placed), 1)
         IN correct_misplacements(
                balanced,
                find_misplaced_l4_tables(balanced[1], balanced[2], left_l3, right_l3,
                                         left_l2, right_l2, conn, order),
                1)

identify_additional_l2_tables(table_names, l1_dimensions, conn, excluded_tables) ==
    SelectSeq(table_names, LAMBDA table_name :
        /\ table_name \notin excluded_tables
        /\ Cardinality(Neighbours(conn, table_name) \cap Range(l1_dimensions)) = 1)

\* TableCategorizer.detect_bidirectional_relationships: the pairs of one table
bidirectional_pairs_of(table1, conn, order) ==
    LET connected_tables == SelectSeq(Enumerate(Neighbours(conn, table1), order),
                                      LAMBDA table2 : table1 \in Neighbours(conn, table2))
    IN [k \in 1..Len(connected_tables) |-> SortedPair(table1, connected_tables[k])]

RECURSIVE bidirectional_pairs_from(_, _, _)
bidirectional_pairs_from(i, conn, order) ==
    IF i > Len(conn.keys) THEN <<>>
    ELSE bidirectional_pairs_of(conn.keys[i], conn, order)
         \o bidirectional_pairs_from(i + 1, conn, order)

detect_bidirectional_relationships(conn, order) ==
    Dedupe(bidirectional_pairs_from(1, conn, order))

\* TableCategorizer.analyze_relationship_cardinality, for one connected pair
relationship_type(table1, table2, conn) ==
    IF table2 \notin Neighbours(conn, table1) THEN "unknown"
    ELSE IF table1 \notin Neighbours(conn, table2) THEN "many_to_one"
    ELSE IF ConnectionCount(conn, table1) = 1 /\ ConnectionCount(conn, table2) = 1
    THEN "one_to_one"
    ELSE IF ConnectionCount(conn, table1) > 3 /\ ConnectionCount(conn, table2) > 3
    THEN "many_to_many"
    ELSE "one_to_many"

\* the dict handed to apply_opposite_side_placement, in insertion order
PlacementCategories ==
    <<"l1_dimension_left", "l1_dimension_right", "l2_dimension_left", "l2_dimension_right",
      "l3_dimension_left", "l3_dimension_right", "l4_plus_dimension_left",
      "l4_plus_dimension_right">>

find_table_category(table_name, categorized) ==
    IF \E i \in 1..Len(PlacementCategories) : InSeq(table_name, categorized[PlacementCategories[i]])
    THEN PlacementCategories[CHOOSE i \in 1..Len(PlacementCategories) :
             /\ InSeq(table_name, categorized[PlacementCategories[i]])
             /\ \A j \in 1..(i - 1) : ~InSeq(table_name, categorized[PlacementCategories[j]])]
    ELSE "unknown"

IsLeft(category) == Contains(category, "left")

same_side(category1, category2) == IsLeft(category1) = IsLeft(category2)

\* str.replace('left', 'right') and back, on the category names
OtherSide(category) ==
    PlacementCategories[CHOOSE i \in 1..Len(PlacementCategories) :
        /\ PlacementCategories[i] # category
        /\ SubSeq(PlacementCategories[i], 1, 3) = SubSeq(category, 1, 3)]

move_to_opposite_side(table_name, current_category, categorized) ==
    LET removed == [categorized EXCEPT ![current_category] = RemoveFirst(@, table_name)]
    IN [removed EXCEPT ![OtherSide(current_category)] = Append(@, table_name)]

move_to_same_side_as(table_name, current_category, target_category, categorized) ==
    LET removed == [categorized EXCEPT ![current_category] = RemoveFirst(@, table_name)]
        same_side_category == IF IsLeft(target_category) = IsLeft(current_category)
                              THEN current_category ELSE OtherSide(current_category)
    IN [removed EXCEPT ![same_side_category] = Append(@, table_name)]

force_opposite_sides_for_pair(table1, table2, categorized, conn) ==
    LET table1_category == find_table_category(table1, categorized)
        table2_category == find_table_category(table2, categorized)
    IN IF table1_category = "unknown" \/ table2_category = "unknown" THEN categorized
       ELSE IF ~same_side(table1_category, table2_category) THEN categorized
       ELSE IF ConnectionCount(conn, table1) <= ConnectionCount(conn, table2)
       THEN move_to_opposite_side(table1, table1_category, categorized)
       ELSE move_to_opposite_side(table2, table2_category, categorized)

force_same_side_for_pair(table1, table2, categorized, conn) ==
    LET table1_category == find_table_category(table1, categorized)
        table2_category == find_table_category(table2, categorized)
    IN IF table1_category = "unknown" \/ table2_category = "unknown" THEN categorized
       ELSE IF same_side(table1_category, table2_category) THEN categorized
       ELSE IF ConnectionCount(conn, table1) <= ConnectionCount(conn, table2)
       THEN move_to_same_side_as(table1, table1_category, table2_category, categorized)
       ELSE move_to_same_side_as(table2, table2_category, table1_category, categorized)

RECURSIVE placement_rules(_, _, _, _)
placement_rules(categorized, bidirectional_pairs, i, conn) ==
    IF i > Len(bidirectional_pairs) THEN categorized
    ELSE LET table1 == bidirectional_pairs[i][1]
             table2 == bidirectional_pairs[i][2]
             rel_type == relationship_type(table1, table2, conn)
         IN placement_rules(
                IF rel_type = "one_to_one"
                THEN force_opposite_sides_for_pair(table1, table2, categorized, conn)
                ELSE IF rel_type = "many_to_many"
                THEN force_same_side_for_pair(table1, table2, categorized, conn)
                ELSE categorized,
                bidirectional_pairs, i + 1, conn)

\* The extension loop that follows the placement rules unpacks each value of
\* find_dimension_extensions, a 6-tuple, into two names: the ValueError is
\* caught around the loop before any table is moved, so the rules' result is
\* what is returned.
apply_opposite_side_placement(categorized, conn, order) ==
    placement_rules(categorized, detect_bidirectional_relationships(conn, order), 1, conn)

(***************************************************************************)
(* MiddleOutLayoutEngine._reposition_extensions: the eight side lists are  *)
(* the values of PlacementCategories, in that order.                       *)
(***************************************************************************)
\* _find_table_category_and_side, as the index of the list; 0 for (None, None)
find_table_category_and_side(table_name, sides) ==
    IF \E i \in 1..Len(PlacementCategories) : InSeq(table_name, sides[PlacementCategories[i]])
    THEN CHOOSE i \in 1..Len(PlacementCategories) :
             /\ InSeq(table_name, sides[PlacementCategories[i]])
             /\ \A j \in 1..(i - 1) : ~InSeq(table_name, sides[PlacementCategories[j]])
    ELSE 0

\* _calculate_target_category, same side: l1 -> l2 -> l3 -> l4 -> l4
calculate_target_category(base_index) ==
    IF base_index + 2 <= Len(PlacementCategories) THEN base_index + 2 ELSE base_index

remove_table_from_all_categories(table_name, sides) ==
    [category \in DOMAIN sides |-> RemoveFirst(sides[category], table_name)]

add_table_to_category(table_name, target_index, sides) ==
    [sides EXCEPT ![PlacementCategories[target_index]] = Append(@, table_name)]

RECURSIVE layout_reposition_extensions(_, _, _)
layout_reposition_extensions(extensions, sides, i) ==
    IF i > Len(extensions.keys) THEN sides
    ELSE LET extension_table == extensions.keys[i]
             base_table == extensions.val[extension_table][1]
             rel_type == extensions.val[extension_table][2]
             base_index == find_table_category_and_side(base_table, sides)
         IN layout_reposition_extensions(
                extensions,
                IF rel_type # "extension" \/ base_index = 0 THEN sides
                ELSE add_table_to_category(
                         extension_table, calculate_target_category(base_index),
                         remove_table_from_all_categories(extension_table, sides)),
                i + 1)

(***************************************************************************)
(* UniversalChainAlignment                                                 *)
(***************************************************************************)
\* all_dimension_stacks, in insertion order
StackNames ==
    <<"left_l4_dimensions", "left_l3_dimensions", "left_l2_dimensions", "left_l1_dimensions",
      "fact_tables", "right_l1_dimensions", "right_l2_dimensions", "right_l3_dimensions",
      "right_l4_dimensions">>

RECURSIVE TotalTables(_, _)
\* sum(len(tables) for tables in stacks.values())
TotalTables(stacks, i) ==
    IF i > Len(StackNames) THEN 0
    ELSE Len(stacks[StackNames[i]]) + TotalTables(stacks, i + 1)

level_order == <<"l3", "l2", "l1", "facts">>

level_mappings(all_stacks) ==
    [l3 |-> Range(all_stacks.left_l3_dimensions \o all_stacks.right_l3_dimensions),
     l2 |-> Range(all_stacks.left_l2_dimensions \o all_stacks.right_l2_dimensions),
     l1 |-> Range(all_stacks.left_l1_dimensions \o all_stacks.right_l1_dimensions),
     facts |-> Range(all_stacks.fact_tables)]

find_extension_tables(base_table, level_tables, conn, order) ==
    SelectSeq(Enumerate(level_tables, order), LAMBDA table :
        /\ table # base_table
        /\ (base_table \in Neighbours(conn, table) \/ table \in Neighbours(conn, base_table)))

\* start_table.replace('Dim_', '').replace('Tree', '').replace('Category', '')
chain_family_name ==
    [t \in TableCatalogue |-> ReplaceAll(ReplaceAll(ReplaceAll(t, "Dim_"), "Tree"), "Category")]

RECURSIVE trace_chain(_, _, _, _, _, _)
\* the walk towards the facts: one table per level, list(connected_next)[0]
trace_chain(family, current_table, next_level_index, mappings, conn, order) ==
    IF next_level_index > Len(level_order) THEN family
    ELSE LET next_level_tables == mappings[level_order[next_level_index]]
             connected_next == Neighbours(conn, current_table) \cap next_level_tables
         IN IF connected_next = {} THEN family
            ELSE LET next_table == Enumerate(connected_next, order)[1]
                     extensions == find_extension_tables(next_table, next_level_tables, conn, order)
                 IN trace_chain([chain |-> Append(family.chain, next_table),
                                 family_tables |-> family.family_tables \cup {next_table}
                                                   \cup Range(extensions)],
                                next_table, next_level_index + 1, mappings, conn, order)

\* <<family>>, or <<>> for None
trace_complete_chain_family(start_table, mappings, conn, order) ==
    IF \A k \in 1..Len(level_order) : start_table \notin mappings[level_order[k]] THEN <<>>
    ELSE LET current_level_index == CHOOSE k \in 1..Len(level_order) :
                     /\ start_table \in mappings[level_order[k]]
                     /\ \A j \in 1..(k - 1) : start_table \notin mappings[level_order[j]]
             family == trace_chain([chain |-> <<start_table>>, family_tables |-> {start_table}],
                                   start_table, current_level_index + 1, mappings, conn, order)
         IN IF Len(family.chain) >= 2
            THEN <<[name |-> chain_family_name[start_table],
                    chain |-> family.chain,
                    all_tables |-> Enumerate(family.family_tables, order),
                    start_table |-> start_table]>>
            ELSE <<>>

RECURSIVE detect_families_from(_, _, _, _, _, _, _)
detect_families_from(chain_families, used_tables, starts, i, mappings, conn, order) ==
    IF i > Len(starts) THEN chain_families
    ELSE LET family == IF starts[i] \in used_tables THEN <<>>
                       ELSE trace_complete_chain_family(starts[i], mappings, conn, order)
         IN detect_families_from(
                chain_families \o family,
                IF family = <<>> THEN used_tables
                ELSE used_tables \cup Range(family[1].all_tables),
                starts, i + 1, mappings, conn, order)

\* the L3 starts, then the L2 starts not used by an earlier family
detect_chain_families(all_stacks, conn, order) ==
    LET mappings == level_mappings(all_stacks)
    IN detect_families_from(<<>>, {},
                            Enumerate(mappings.l3, order) \o Enumerate(mappings.l2, order),
                            1, mappings, conn, order)

\* family_positions[name]: the index of the last family of that name
family_position(chain_families, name) ==
    (CHOOSE i \in 1..Len(chain_families) :
        /\ chain_families[i].name = name
        /\ \A j \in (i + 1)..Len(chain_families) : chain_families[j].name # name) - 1

RECURSIVE InsertByPosition(_, _)
InsertByPosition(x, s) ==
    IF s = <<>> THEN <<x>>
    ELSE IF x.position <= Head(s).position THEN <<x>> \o s
    ELSE <<Head(s)>> \o InsertByPosition(x, Tail(s))

RECURSIVE SortByPosition(_)
\* list.sort(key=position): stable
SortByPosition(s) ==
    IF s = <<>> THEN <<>> ELSE InsertByPosition(Head(s), SortByPosition(Tail(s)))

\* the list as it is, the table still in it
keep_unassigned(unassigned_tables, table) == unassigned_tables

\* unassigned_tables.remove(table)
take_assigned(unassigned_tables, table) == RemoveFirst(unassigned_tables, table)

RECURSIVE assign_family_tables(_, _, _, _)
assign_family_tables(st, family_tables_in_stack, i, position) ==
    IF i > Len(family_tables_in_stack) THEN st
    ELSE LET table == family_tables_in_stack[i]
         IN assign_family_tables(
                IF InSeq(table, st.unassigned_tables)
                THEN [stack_organization |->
                          Append(st.stack_organization, [table |-> table, position |-> position]),
                      unassigned_tables |-> take_assigned(st.unassigned_tables, table)]
                ELSE st,
                family_tables_in_stack, i + 1, position)

RECURSIVE assign_families(_, _, _, _)
assign_families(st, families, i, original_tables) ==
    IF i > Len(families) THEN st
    ELSE assign_families(
             assign_family_tables(st, Within(families[i].family.all_tables, Range(original_tables)),
                                  1, families[i].position),
             families, i + 1, original_tables)

RECURSIVE append_unassigned(_, _, _, _)
append_unassigned(stack_organization, unassigned_tables, i, family_count) ==
    IF i > Len(unassigned_tables) THEN stack_organization
    ELSE append_unassigned(
             Append(stack_organization,
                    [table |-> unassigned_tables[i],
                     position |-> family_count + Len(stack_organization)]),
             unassigned_tables, i + 1, family_count)

organize_stack(original_tables, chain_families) ==
    IF original_tables = <<>> THEN <<>>
    ELSE LET families == SortByPosition(
                             [k \in 1..Len(chain_families) |->
                                 [family |-> chain_families[k],
                                  position |-> family_position(chain_families,
                                                               chain_families[k].name)]])
             st == assign_families([stack_organization |-> <<>>,
                                    unassigned_tables |-> original_tables],
                                   families, 1, original_tables)
             organized == SortByPosition(
                              append_unassigned(st.stack_organization, st.unassigned_tables, 1,
                                                Len(chain_families)))
         IN [k \in 1..Len(organized) |-> organized[k].table]

organize_stacks_by_families(all_stacks, chain_families) ==
    [stack_name \in DOMAIN all_stacks |-> organize_stack(all_stacks[stack_name], chain_families)]

optimize_universal_stack_alignment(all_stacks, conn, order) ==
    organize_stacks_by_families(all_stacks, detect_chain_families(all_stacks, conn, order))

(***************************************************************************)
(* FamilyAwareAlignment                                                    *)
(***************************************************************************)
\* MiddleOutLayoutEngine._format_extensions_for_family_grouping
format_extensions_for_family_grouping(extensions) ==
    LET kept == SelectSeq(extensions.keys, LAMBDA e : extensions.val[e][2] = "extension")
    IN [keys |-> kept,
        val |-> [e \in Range(kept) |-> [base_table |-> extensions.val[e][1],
                                        type |-> extensions.val[e][2]]]]

generate_family_name(base_table) ==
    LET name == ReplaceAll(ReplaceAll(ReplaceAll(ReplaceAll(base_table, "Dim_"), "Fact_"),
                                      "Tree"), "Category")
    IN IF Contains(name, "_") THEN BeforeFirst(name, "_") ELSE name

family_name_of == [t \in TableCatalogue |-> generate_family_name(t)]

RECURSIVE base_to_extensions_from(_, _, _)
base_to_extensions_from(found, extensions, i) ==
    IF i > Len(extensions.keys) THEN found
    ELSE LET extension_table == extensions.keys[i]
             base_table == extensions.val[extension_table].base_table
         IN base_to_extensions_from(
                DictSet(found, base_table, Append(DictGet(found, base_table, <<>>), extension_table)),
                extensions, i + 1)

RECURSIVE family_groups_from(_, _, _)
family_groups_from(family_groups, base_to_extensions, i) ==
    IF i > Len(base_to_extensions.keys) THEN family_groups
    ELSE LET base_table == base_to_extensions.keys[i]
         IN family_groups_from(
                DictSet(family_groups, family_name_of[base_table],
                        <<base_table>> \o base_to_extensions.val[base_table]),
                base_to_extensions, i + 1)

build_family_groups(extensions) ==
    family_groups_from(EmptyDict, base_to_extensions_from(EmptyDict, extensions, 1), 1)

sort_family_members(family_tables_in_stack, all_family_members) ==
    LET base_table == all_family_members[1]
    IN (IF InSeq(base_table, family_tables_in_stack) THEN <<base_table>> ELSE <<>>)
       \o Without(family_tables_in_stack, {base_table})

in_family(table, family_groups) ==
    \E k \in 1..Len(family_groups.keys) : InSeq(table, family_groups.val[family_groups.keys[k]])

\* table_to_family[table]: the last family that lists the table
table_to_family(table, family_groups) ==
    family_groups.keys[CHOOSE k \in 1..Len(family_groups.keys) :
        /\ InSeq(table, family_groups.val[family_groups.keys[k]])
        /\ \A j \in (k + 1)..Len(family_groups.keys) :
               ~InSeq(table, family_groups.val[family_groups.keys[j]])]

RECURSIVE organized_families(_, _, _, _)
organized_families(family_order, i, stack_tables, family_groups) ==
    IF i > Len(family_order) THEN <<>>
    ELSE LET family_name == family_order[i]
             family_tables == SelectSeq(stack_tables, LAMBDA t :
                                  /\ in_family(t, family_groups)
                                  /\ table_to_family(t, family_groups) = family_name)
         IN sort_family_members(family_tables, family_groups.val[family_name])
            \o organized_families(family_order, i + 1, stack_tables, family_groups)

organize_stack_by_families(stack_tables, family_groups) ==
    LET members == SelectSeq(stack_tables, LAMBDA t : in_family(t, family_groups))
        \* the families by the index of their first table in the stack
        family_order == Dedupe([k \in 1..Len(members) |->
                                   table_to_family(members[k], family_groups)])
        organized == organized_families(family_order, 1, stack_tables, family_groups)
    IN organized \o Dedupe(Without(stack_tables, Range(organized)))

apply_family_grouping(aligned_stacks, extensions) ==
    LET family_groups == build_family_groups(extensions)
    IN [stack_name \in DOMAIN aligned_stacks |->
           IF aligned_stacks[stack_name] = <<>> THEN <<>>
           ELSE organize_stack_by_families(aligned_stacks[stack_name], family_groups)]

(***************************************************************************)
(* MiddleOutLayoutEngine._apply_universal_chain_family_grouping            *)
(***************************************************************************)
Letters == UpperCase \o LowerCase

IsUpper(c) == Contains(UpperCase, c)

IsLower(c) == Contains(LowerCase, c)

RECURSIVE LeadingRun(_, _)
\* the longest prefix of text made of characters of alphabet
LeadingRun(text, alphabet) ==
    IF text = "" \/ ~Contains(alphabet, SubSeq(text, 1, 1)) THEN ""
    ELSE SubSeq(text, 1, 1) \o LeadingRun(SubSeq(text, 2, Len(text)), alphabet)

\* re.findall(r'[A-Z][a-z]*', text): one part per upper-case letter
camel_part_count(text) == Cardinality({i \in 1..Len(text) : IsUpper(SubSeq(text, i, i))})

first_camel_part(text) ==
    LET i == CHOOSE k \in 1..Len(text) :
                 /\ IsUpper(SubSeq(text, k, k))
                 /\ \A j \in 1..(k - 1) : ~IsUpper(SubSeq(text, j, j))
    IN SubSeq(text, i, i) \o LeadingRun(SubSeq(text, i + 1, Len(text)), LowerCase)

family_prefixes == <<"Dim_", "Fact_", "dim_", "fact_">>

extract_family_base_name(table_name) ==
    LET clean_name ==
            IF \E k \in 1..Len(family_prefixes) : StartsWith(table_name, family_prefixes[k])
            THEN LET k == CHOOSE k \in 1..Len(family_prefixes) :
                              /\ StartsWith(table_name, family_prefixes[k])
                              /\ \A j \in 1..(k - 1) : ~StartsWith(table_name, family_prefixes[j])
                 IN SubSeq(table_name, Len(family_prefixes[k]) + 1, Len(table_name))
            ELSE table_name
    IN IF Contains(clean_name, "_") THEN BeforeFirst(clean_name, "_")
       ELSE IF camel_part_count(clean_name) > 1 THEN first_camel_part(clean_name)
       ELSE IF LeadingRun(clean_name, Letters) # "" THEN LeadingRun(clean_name, Letters)
       ELSE clean_name

family_base_name == [t \in TableCatalogue |-> extract_family_base_name(t)]

are_tables_in_same_family(table1, table2, conn) ==
    \/ table2 \in Neighbours(conn, table1)
    \/ table1 \in Neighbours(conn, table2)
    \/ Neighbours(conn, table1) \cap Neighbours(conn, table2) # {}

RECURSIVE chain_families_from(_, _, _, _, _)
chain_families_from(families, processed_tables, all_tables, i, conn) ==
    IF i > Len(all_tables) THEN families
    ELSE LET table == all_tables[i]
             family_base == family_base_name[table]
             family_members ==
                 Dedupe(SelectSeq(all_tables, LAMBDA candidate :
                     /\ candidate \notin processed_tables
                     /\ \/ family_base_name[candidate] = family_base
                        \/ are_tables_in_same_family(table, candidate, conn)))
         IN IF table \in processed_tables \/ family_base = ""
            THEN chain_families_from(families, processed_tables, all_tables, i + 1, conn)
            ELSE chain_families_from(
                     IF Len(family_members) > 1
                     THEN DictSet(families, family_base, family_members) ELSE families,
                     processed_tables \cup Range(family_members), all_tables, i + 1, conn)

RECURSIVE AllStackTables(_, _)
AllStackTables(stacks, i) ==
    IF i > Len(StackNames) THEN <<>>
    ELSE stacks[StackNames[i]] \o AllStackTables(stacks, i + 1)

identify_chain_families(aligned_stacks, conn) ==
    chain_families_from(EmptyDict, {}, AllStackTables(aligned_stacks, 1), 1, conn)

\* the family of a stack's table: the first family that lists it, else 'unassigned'
group_of(table, chain_families) ==
    IF \E k \in 1..Len(chain_families.keys) : InSeq(table, chain_families.val[chain_families.keys[k]])
    THEN chain_families.keys[CHOOSE k \in 1..Len(chain_families.keys) :
             /\ InSeq(table, chain_families.val[chain_families.keys[k]])
             /\ \A j \in 1..(k - 1) : ~InSeq(table, chain_families.val[chain_families.keys[j]])]
    ELSE "unassigned"

\* grouped: 'unassigned' first, then the families in order of first appearance
group_tables_by_family(stack_tables, chain_families) ==
    LET names == Dedupe(<<"unassigned">>
                        \o [k \in 1..Len(stack_tables) |-> group_of(stack_tables[k], chain_families)])
    IN [keys |-> names,
        val |-> [name \in Range(names) |->
                    SelectSeq(stack_tables, LAMBDA t : group_of(t, chain_families) = name)]]

RECURSIVE sorted_families(_, _)
sorted_families(grouped_tables, i) ==
    IF i > Len(grouped_tables.keys) THEN <<>>
    ELSE (IF grouped_tables.keys[i] = "unassigned" THEN <<>>
          ELSE SortedList(grouped_tables.val[grouped_tables.keys[i]]))
         \o sorted_families(grouped_tables, i + 1)

reorganize_stack_by_families(grouped_tables) ==
    sorted_families(grouped_tables, 1) \o SortedList(grouped_tables.val["unassigned"])

apply_universal_chain_family_grouping(aligned_stacks, conn) ==
    LET chain_families == identify_chain_families(aligned_stacks, conn)
    IN IF chain_families.keys = <<>> THEN aligned_stacks
       ELSE [stack_name \in DOMAIN aligned_stacks |->
                IF aligned_stacks[stack_name] = <<>> THEN <<>>
                ELSE reorganize_stack_by_families(
                         group_tables_by_family(aligned_stacks[stack_name], chain_families))]

(***************************************************************************)
(* PositionCalculator.calculate_canvas_positions                           *)
(***************************************************************************)
table_width == 200

expanded_height == 180

calendar_table_height == 140

within_stack_spacing == 15

stack_gap == 150

calendar_spacing == 80

left_margin == 50

\* table_width + 100 after, and before, the metrics and parameters columns
compact_gap == 100

utility_stacks == {"metrics", "parameters"}

\* the columns that exist, left to right
canvas_stacks(categorized) ==
    LET column(name, needed) == IF needed THEN <<name>> ELSE <<>>
    IN column("l4_plus_left", categorized.l4_plus_dimensions_left # <<>>
                              \/ categorized.l4_plus_dimensions # <<>>)
       \o column("l3_left", categorized.l3_dimensions_left # <<>>
                            \/ categorized.l3_dimensions # <<>>)
       \o column("l2_left", categorized.l2_dimensions_left # <<>>
                            \/ categorized.l2_dimensions # <<>>)
       \o column("l1_left", categorized.l1_dimensions_left # <<>>
                            \/ categorized.l1_dimensions # <<>>)
       \o column("center", categorized.calendar_tables # <<>> \/ categorized.fact_tables # <<>>)
       \o column("l1_right", categorized.l1_dimensions_right # <<>>
                             \/ categorized.l1_dimensions # <<>>)
       \o column("l2_right", categorized.l2_dimensions_right # <<>>
                             \/ categorized.l2_dimensions # <<>>)
       \o column("l3_right", categorized.l3_dimensions_right # <<>>
                             \/ categorized.l3_dimensions # <<>>)
       \o column("l4_plus_right", categorized.l4_plus_dimensions_right # <<>>
                                  \/ categorized.l4_plus_dimensions # <<>>)
       \o column("metrics", categorized.metrics_tables # <<>>)
       \o column("parameters", categorized.parameter_tables # <<>>
                               \/ categorized.disconnected_tables # <<>>)

\* every column as far from the one before it as a dimension stack
standard_step(stack, next_stack) == table_width + stack_gap

\* what current_x grows by after a column, next_stack being the column after it
column_step(stack, next_stack) ==
    IF stack \in utility_stacks THEN table_width + compact_gap
    ELSE IF next_stack \in utility_stacks THEN table_width + compact_gap
    ELSE table_width + stack_gap

RECURSIVE stack_x(_, _)
\* current_x when the i-th column is reached
stack_x(stacks, i) ==
    IF i = 1 THEN left_margin
    ELSE stack_x(stacks, i - 1) + column_step(stacks[i - 1], stacks[i])

calculate_canvas_positions(categorized) ==
    LET stacks == canvas_stacks(categorized)
    IN [keys |-> stacks,
        val |-> [stack \in Range(stacks) |-> stack_x(stacks, IndexOf(stack, stacks))]]

(***************************************************************************)
(* ChainAwarePositionGenerator                                             *)
(***************************************************************************)
Position(table, x, y, height, category) ==
    [nodeIndex |-> table, x |-> x, y |-> y, width |-> table_width, height |-> height,
     category |-> category]

stack_x_mapping ==
    [left_l4_dimensions |-> "l4_plus_left", left_l3_dimensions |-> "l3_left",
     left_l2_dimensions |-> "l2_left", left_l1_dimensions |-> "l1_left",
     fact_tables |-> "center", right_l1_dimensions |-> "l1_right",
     right_l2_dimensions |-> "l2_right", right_l3_dimensions |-> "l3_right",
     right_l4_dimensions |-> "l4_plus_right"]

\* where the dimension stacks, the facts without calendar and the metrics start
stack_start_y == 150

\* where the center column and the parameter grid start
top_y == 50

\* the extra space between the calendar-connected specials and the calendar
specials_gap == 20

RECURSIVE Replace(_, _, _)
\* text.replace(old, new)
Replace(text, old, new) ==
    IF Len(text) < Len(old) \/ old = "" THEN text
    ELSE IF StartsWith(text, old)
    THEN new \o Replace(SubSeq(text, Len(old) + 1, Len(text)), old, new)
    ELSE SubSeq(text, 1, 1) \o Replace(SubSeq(text, 2, Len(text)), old, new)

\* stack_name.replace('_dimensions', '_dimension')
stack_category == [n \in Range(StackNames) |-> Replace(n, "_dimensions", "_dimension")]

\* The alignment engine never has _reserved_positions, so alignment_map is
\* empty and every table takes the next gap position.
generate_dimension_stack_positions(stack_tables, x_position, stack_name) ==
    [k \in 1..Len(stack_tables) |->
        Position(stack_tables[k], x_position,
                 stack_start_y + (k - 1) * (expanded_height + within_stack_spacing),
                 expanded_height, stack_category[stack_name])]

generate_center_positions(fact_tables, center_x, calendar_connected_specials, calendar_tables) ==
    LET special_step == calendar_table_height + within_stack_spacing
        specials == [k \in 1..Len(calendar_connected_specials) |->
                        Position(calendar_connected_specials[k], center_x,
                                 top_y + (k - 1) * special_step,
                                 calendar_table_height, "calendar_connected_special")]
        after_specials == IF calendar_connected_specials # <<>>
                          THEN top_y + Len(calendar_connected_specials) * special_step
                               + specials_gap
                          ELSE top_y
        calendars == [k \in 1..Len(calendar_tables) |->
                         Position(calendar_tables[k], center_x,
                                  after_specials + (k - 1) * special_step,
                                  calendar_table_height, "calendar")]
        center_y == IF calendar_tables # <<>>
                    THEN after_specials + Len(calendar_tables) * special_step + calendar_spacing
                    ELSE stack_start_y
        facts == [k \in 1..Len(fact_tables) |->
                     Position(fact_tables[k], center_x,
                              center_y + (k - 1) * (expanded_height + within_stack_spacing),
                              expanded_height, "fact")]
    IN specials \o calendars \o facts

max_grid_cols == 4

col_spacing == 220

row_spacing == 190

generate_parameter_grid_positions(grid_tables, start_x, start_y) ==
    LET total_count == Len(grid_tables)
        grid_cols == IF total_count <= max_grid_cols THEN total_count ELSE max_grid_cols
    IN [k \in 1..total_count |->
           Position(grid_tables[k],
                    start_x + ((k - 1) % grid_cols) * col_spacing,
                    start_y + ((k - 1) \div grid_cols) * row_spacing,
                    expanded_height, "parameter_grid")]

add_additional_table_positions(positions_map, metrics_tables, parameter_tables, disconnected_tables, calculation_groups) ==
    (IF metrics_tables # <<>> /\ HasKey(positions_map, "metrics")
     THEN [k \in 1..Len(metrics_tables) |->
              Position(metrics_tables[k], positions_map.val["metrics"],
                       stack_start_y + (k - 1) * (expanded_height + within_stack_spacing),
                       expanded_height, "metrics")]
     ELSE <<>>)
    \o (IF /\ parameter_tables \o disconnected_tables \o calculation_groups # <<>>
           /\ HasKey(positions_map, "parameters")
        THEN generate_parameter_grid_positions(
                 parameter_tables \o disconnected_tables \o calculation_groups,
                 positions_map.val["parameters"], top_y)
        ELSE <<>>)

RECURSIVE stack_positions_from(_, _, _, _, _)
stack_positions_from(i, aligned_stacks, positions_map, calendar_connected_specials, calendar_tables) ==
    IF i > Len(StackNames) THEN <<>>
    ELSE LET stack_name == StackNames[i]
             stack_tables == aligned_stacks[stack_name]
             x_key == stack_x_mapping[stack_name]
         IN (IF stack_tables = <<>> \/ ~HasKey(positions_map, x_key) THEN <<>>
             ELSE IF stack_name = "fact_tables"
             THEN generate_center_positions(stack_tables, positions_map.val[x_key],
                                            calendar_connected_specials, calendar_tables)
             ELSE generate_dimension_stack_positions(stack_tables, positions_map.val[x_key],
                                                     stack_name))
            \o stack_positions_from(i + 1, aligned_stacks, positions_map,
                                    calendar_connected_specials, calendar_tables)

generate_chain_aligned_positions(aligned_stacks, positions_map, calendar_connected_specials, calendar_tables, metrics_tables, parameter_tables, disconnected_tables, calculation_groups) ==
    stack_positions_from(1, aligned_stacks, positions_map, calendar_connected_specials,
                         calendar_tables)
    \o add_additional_table_positions(positions_map, metrics_tables, parameter_tables,
                                      disconnected_tables, calculation_groups)

(***************************************************************************)
(* MiddleOutLayoutEngine.generate_middle_out_layout, in its stages.  The   *)
(* layout record holds the locals of the call: categorized (whose          *)
(* l2_dimensions list the engine extends in place), the engine's filtered  *)
(* fact_tables and calendar_tables, the specials, the eight side lists and *)
(* the stacks.                                                             *)
(***************************************************************************)
NoSides == [category \in Range(PlacementCategories) |-> <<>>]

\* L1 sides, calendar-connected specials and additional L2 tables
layout_first_level(categorized, table_names, conn, order) ==
    LET l1_sides == optimize_dimension_placement(categorized.l1_dimensions,
                        categorized.fact_tables, conn, categorized.calendar_tables, order)
        calendar_connected_specials ==
            identify_calendar_connected_specials(table_names, categorized.calendar_tables,
                                                 conn, {})
        specials == Range(calendar_connected_specials)
        left_l1 == Without(l1_sides[1], specials)
        right_l1 == Without(l1_sides[2], specials)
        remaining_tables ==
            Without(table_names,
                    Range(categorized.fact_tables) \cup Range(categorized.calendar_tables)
                    \cup Range(categorized.metrics_tables)
                    \cup Range(categorized.parameter_tables)
                    \cup Range(categorized.calculation_groups)
                    \cup Range(categorized.disconnected_tables) \cup specials)
        additional_l2s == identify_additional_l2_tables(remaining_tables, left_l1 \o right_l1,
                                                        conn, Range(categorized.l2_dimensions))
    IN [categorized |-> [categorized EXCEPT !.l2_dimensions = @ \o additional_l2s],
        fact_tables |-> Without(categorized.fact_tables, specials),
        calendar_tables |-> Without(categorized.calendar_tables, specials),
        calendar_connected_specials |-> calendar_connected_specials,
        sides |-> [NoSides EXCEPT
                      !["l1_dimension_left"] = Without(left_l1, Range(additional_l2s)),
                      !["l1_dimension_right"] = Without(right_l1, Range(additional_l2s))]]

\* L2 near L1, L3 near L2, L4+ near L3
layout_outer_levels(layout, conn, order) ==
    LET l2 == place_l2_dimensions_near_l1(layout.categorized.l2_dimensions,
                  layout.sides["l1_dimension_left"], layout.sides["l1_dimension_right"],
                  conn, order)
        l3 == place_l3_dimensions_near_l2(layout.categorized.l3_dimensions, l2[1], l2[2],
                                          conn, order)
        l4 == place_l4_dimensions_near_l3(layout.categorized.l4_plus_dimensions, l3[1], l3[2],
                                          l2[1], l2[2], conn, order)
    IN [layout EXCEPT !.sides =
           [@ EXCEPT !["l2_dimension_left"] = l2[1], !["l2_dimension_right"] = l2[2],
                     !["l3_dimension_left"] = l3[1], !["l3_dimension_right"] = l3[2],
                     !["l4_plus_dimension_left"] = l4[1], !["l4_plus_dimension_right"] = l4[2]]]

\* extension repositioning, then the opposite-side rules
layout_rules(layout, conn, order) ==
    LET confirmed_extensions == layout.categorized.dimension_extensions
        repositioned == IF confirmed_extensions.keys # <<>>
                        THEN layout_reposition_extensions(confirmed_extensions, layout.sides, 1)
                        ELSE layout.sides
    IN [layout EXCEPT !.sides = apply_opposite_side_placement(repositioned, conn, order)]

all_dimension_stacks(layout) ==
    [left_l4_dimensions |-> layout.sides["l4_plus_dimension_left"],
     left_l3_dimensions |-> layout.sides["l3_dimension_left"],
     left_l2_dimensions |-> layout.sides["l2_dimension_left"],
     left_l1_dimensions |-> layout.sides["l1_dimension_left"],
     fact_tables |-> layout.fact_tables,
     right_l1_dimensions |-> layout.sides["l1_dimension_right"],
     right_l2_dimensions |-> layout.sides["l2_dimension_right"],
     right_l3_dimensions |-> layout.sides["l3_dimension_right"],
     right_l4_dimensions |-> layout.sides["l4_plus_dimension_right"]]

\* chain alignment, extension-family grouping, chain-family grouping
layout_alignment(layout, conn, order) ==
    LET aligned == optimize_universal_stack_alignment(all_dimension_stacks(layout), conn, order)
        extensions == layout.categorized.dimension_extensions
        grouped == IF extensions.keys # <<>>
                   THEN apply_family_grouping(aligned,
                                              format_extensions_for_family_grouping(extensions))
                   ELSE aligned
    IN apply_universal_chain_family_grouping(grouped, conn)

\* categorized.copy() updated with the split lists
categorized_with_splits(categorized, aligned_stacks) ==
    [l1_dimensions_left |-> aligned_stacks.left_l1_dimensions,
     l1_dimensions_right |-> aligned_stacks.right_l1_dimensions,
     l2_dimensions_left |-> aligned_stacks.left_l2_dimensions,
     l2_dimensions_right |-> aligned_stacks.right_l2_dimensions,
     l3_dimensions_left |-> aligned_stacks.left_l3_dimensions,
     l3_dimensions_right |-> aligned_stacks.right_l3_dimensions,
     l4_plus_dimensions_left |-> aligned_stacks.left_l4_dimensions,
     l4_plus_dimensions_right |-> aligned_stacks.right_l4_dimensions] @@ categorized

\* the column x positions, then the Position list
layout_positions(layout, aligned_stacks) ==
    generate_chain_aligned_positions(
        aligned_stacks,
        calculate_canvas_positions(categorized_with_splits(layout.categorized, aligned_stacks)),
        layout.calendar_connected_specials, layout.calendar_tables,
        layout.categorized.metrics_tables, layout.categorized.parameter_tables,
        layout.categorized.disconnected_tables, layout.categorized.calculation_groups)

\* the whole call, for one enumeration order
generate_middle_out_layout(table_names, relationships, order) ==
    IF table_names = <<>> THEN <<>>
    ELSE LET conn == build_relationship_graph(relationships, table_names)
             categorized == categorize_tables(table_names, relationships, conn, order)
             layout == layout_rules(
                           layout_outer_levels(
                               layout_first_level(categorized, table_names, conn, order),
                               conn, order),
                           conn, order)
         IN layout_positions(layout, layout_alignment(layout, conn, order))

(***************************************************************************)
(* Inputs                                                                  *)
(***************************************************************************)
Reverse(s) == [i \in 1..Len(s) |-> s[Len(s) + 1 - i]]

\* the enumeration orders of sets of names that runs are checked under
HashOrders(S) == {SortedSeq(S), Reverse(SortedSeq(S))}

\* the records of a catalogue at the chosen indices, in catalogue order
SubCatalogue(catalogue, chosen) == AtIndices(catalogue, chosen)

PlainRel(a, b) == Relationship(a, b, None, None, None)

(***************************************************************************)
(* SpecGraph: build_relationship_graph, one relationship record per step.  *)
(***************************************************************************)
MaxGraphRels == 3

GraphTables == {"Product", "Sales"}

GraphRecords == {PlainRel(a, b) : a, b \in GraphTables \cup {""}}

InitGraph ==
    /\ pc = "graph"
    /\ tables \in {SortedSeq(S) : S \in SUBSET GraphTables}
    /\ rels \in UNION {[1..n -> GraphRecords] : n \in 0..MaxGraphRels}
    /\ hashOrder = SortedSeq(GraphTables)
    /\ connections = EmptyDict
    /\ cat = None
    /\ work = 1
    /\ out = EmptyDict
    /\ finished = <<>>
    /\ disk = NoDisk
    /\ result = <<>>

GraphAddRelationship ==
    /\ pc = "graph"
    /\ work <= Len(rels)
    /\ connections' = graph_add_relationship(connections, rels[work], Range(tables))
    /\ work' = work + 1
    /\ UNCHANGED <<pc, tables, rels, hashOrder, cat, out, finished, disk, result>>

GraphReturn ==
    /\ pc = "graph"
    /\ work > Len(rels)
    /\ out' = connections
    /\ pc' = "graph_done"
    /\ UNCHANGED <<tables, rels, hashOrder, connections, cat, work, finished, disk, result>>

NextGraph == GraphAddRelationship \/ GraphReturn

SpecGraph == InitGraph /\ [][NextGraph]_vars

Symmetric(conn) ==
    \A a \in DOMAIN conn.val : \A b \in conn.val[a] : HasKey(conn, b) /\ a \in conn.val[b]

\* C4: the connection graph is symmetric after every relationship record and
\* when it is returned: B is in graph[A] exactly when A is in graph[B],
\* self-relationships and repeated pairs included.
GraphSymmetry ==
    /\ Symmetric(connections)
    /\ pc = "graph_done" => Symmetric(out)

\* a returned graph built from a self-relationship, a repeated pair of two
\* known tables and a record that names an unknown table
GraphSymmetryWitness ==
    /\ pc = "graph_done"
    /\ \E a \in DOMAIN out.val : a \in out.val[a]
    /\ \E i, j \in 1..Len(rels) :
          /\ i # j
          /\ rels[i].fromTable # rels[i].toTable
          /\ {rels[i].fromTable, rels[i].toTable} = {rels[j].fromTable, rels[j].toTable}
          /\ rels[i].toTable \in Neighbours(out, rels[i].fromTable)

(***************************************************************************)
(* SpecBFS: calculate_distance_to_facts, one queue entry per step.         *)
(***************************************************************************)
MaxBfsEdges == 4

BfsTables == <<"Category", "Date", "Product", "Sales">>

BfsEdgeCatalogue ==
    <<PlainRel("Sales", "Product"), PlainRel("Product", "Category"),
      PlainRel("Sales", "Date"), PlainRel("Category", "Date"),
      PlainRel("Sales", "Category"), PlainRel("Product", "Date"),
      PlainRel("Sales", "Sales"), PlainRel("Product", "Product"),
      PlainRel("Category", "Category"), PlainRel("Date", "Date")>>

InitBFS ==
    /\ pc = "bfs_call"
    /\ tables = BfsTables
    /\ \E chosen \in SUBSET (1..Len(BfsEdgeCatalogue)) :
          /\ Cardinality(chosen) <= MaxBfsEdges
          /\ rels = SubCatalogue(BfsEdgeCatalogue, chosen)
    /\ hashOrder \in HashOrders(Range(BfsTables))
    /\ connections = build_relationship_graph(rels, tables)
    /\ cat = None
    /\ \E t \in Range(BfsTables), S \in SUBSET Range(BfsTables) :
          work = [table_name |-> t, fact_tables |-> S, search |-> bfs_start(t)]
    /\ out = None
    /\ finished = <<>>
    /\ disk = NoDisk
    /\ result = <<>>

BFSCall ==
    /\ pc = "bfs_call"
    /\ IF work.table_name \in work.fact_tables
       THEN out' = 0 /\ pc' = "bfs_done"
       ELSE out' = out /\ pc' = "bfs_loop"
    /\ UNCHANGED <<tables, rels, hashOrder, connections, cat, work, finished, disk, result>>

BFSIterate ==
    /\ pc = "bfs_loop"
    /\ work.search.queue # <<>>
    /\ LET st == bfs_step(work.search, connections, work.fact_tables, hashOrder)
       IN /\ work' = [work EXCEPT !.search = st]
          /\ IF st.result # <<>>
             THEN out' = st.result[1] /\ pc' = "bfs_done"
             ELSE out' = out /\ pc' = pc
    /\ UNCHANGED <<tables, rels, hashOrder, connections, cat, finished, disk, result>>

BFSExhausted ==
    /\ pc = "bfs_loop"
    /\ work.search.queue = <<>>
    /\ out' = UNREACHABLE
    /\ pc' = "bfs_done"
    /\ UNCHANGED <<tables, rels, hashOrder, connections, cat, work, finished, disk, result>>

NextBFS == BFSCall \/ BFSIterate \/ BFSExhausted

SpecBFS == InitBFS /\ [][NextBFS]_vars

RECURSIVE Ball(_, _, _)
\* the tables within k edges of t
Ball(conn, t, k) ==
    IF k = 0 THEN {t}
    ELSE LET inner == Ball(conn, t, k - 1)
         IN inner \cup UNION {Neighbours(conn, x) : x \in inner}

\* the length in edges of a shortest path from t to a member of S, 999 without one
ShortestPathLength(conn, t, S) ==
    LET n == Cardinality(DOMAIN conn.val)
        hits == {k \in 0..n : Ball(conn, t, k) \cap S # {}}
    IN IF hits = {} THEN UNREACHABLE
       ELSE CHOOSE k \in hits : \A j \in hits : k <= j

\* C5: the returned distance is 0 for a member of S, 999 when no path reaches
\* S, and otherwise the length of a shortest path to a member of S.
BFSCorrect ==
    pc = "bfs_done" =>
        /\ out = ShortestPathLength(connections, work.table_name, work.fact_tables)
        /\ work.table_name \in work.fact_tables => out = 0
        /\ (\A k \in 0..Len(BfsTables) :
               Ball(connections, work.table_name, k) \cap work.fact_tables = {})
           => out = UNREACHABLE

\* a search from a table with a self-relationship, on a graph with a cycle,
\* that finds the nearest fact two edges away
BFSCorrectWitness ==
    /\ pc = "bfs_done"
    /\ out = 2
    /\ work.table_name \in Neighbours(connections, work.table_name)
    /\ Cardinality(work.search.visited) >= 2

(***************************************************************************)
(* SpecExt: identify_extension_tables_universal, one candidate per step.   *)
(***************************************************************************)
MaxHub == 5

HubTables == <<"Brand", "City", "Date", "Region", "Supplier", "Vendor", "Warehouse">>

ExtTables == SortedSeq({"Product", "ProductDetail", "Sales", "Store"} \cup Range(HubTables))

ExtCoreCatalogue ==
    <<Relationship("ProductDetail", "Product", "one", "one", "bothDirections"),
      Relationship("Product", "ProductDetail", "many", "one", None),
      Relationship("Ghost", "Product", "many", "one", "bothDirections"),
      PlainRel("ProductDetail", "ProductDetail"),
      PlainRel("Product", "Product"),
      Relationship("Sales", "Store", None, None, "bothDirections"),
      Relationship("Store", "Store", "one", None, None)>>

\* relationships of the first k hub tables to one table
HubRels(table, k) == [i \in 1..Min2(k, Len(HubTables)) |-> PlainRel(HubTables[i], table)]

InitExt ==
    /\ pc = "graph"
    /\ tables = ExtTables
    /\ \E chosen \in SUBSET (1..Len(ExtCoreCatalogue)), k1, k2 \in 0..MaxHub :
          rels = SubCatalogue(ExtCoreCatalogue, chosen)
                 \o HubRels("ProductDetail", k1) \o HubRels("Product", k2)
    /\ hashOrder = ExtTables
    /\ connections = EmptyDict
    /\ cat = None
    /\ work = 1
    /\ out = EmptyDict
    /\ finished = <<>>
    /\ disk = NoDisk
    /\ result = <<>>

\* the graph is built (GraphAddRelationship, GraphReturn), then Step 1
ExtCollect ==
    /\ pc = "graph_done"
    /\ work' = one_to_one_candidates(rels)
    /\ out' = EmptyDict
    /\ pc' = "ext_loop"
    /\ UNCHANGED <<tables, rels, hashOrder, connections, cat, finished, disk, result>>

ExtDecide ==
    /\ pc = "ext_loop"
    /\ work # <<>>
    /\ out' = record_extension(out, Head(work), connections)
    /\ work' = Tail(work)
    /\ UNCHANGED <<pc, tables, rels, hashOrder, connections, cat, finished, disk, result>>

ExtReturn ==
    /\ pc = "ext_loop"
    /\ work = <<>>
    /\ pc' = "ext_done"
    /\ UNCHANGED <<tables, rels, hashOrder, connections, cat, work, out, finished, disk, result>>

NextExt == GraphAddRelationship \/ GraphReturn \/ ExtCollect \/ ExtDecide \/ ExtReturn

SpecExt == InitExt /\ [][NextExt]_vars

\* the four checks of an extension against its base
FourChecks(conn, extension, base) ==
    /\ ConnectionCount(conn, extension) <= ConnectionCount(conn, base)
    /\ extension \in Neighbours(conn, base)
    /\ ConnectionCount(conn, extension) <= 6
    /\ ConnectionCount(conn, base) >= 1

\* C6: every recorded extension passes the four checks against its recorded
\* base, so a candidate failing one of them is never recorded.
ExtensionValidity ==
    pc \in {"ext_loop", "ext_done"} =>
        \A e \in DOMAIN out.val : FourChecks(connections, e, out.val[e].base_table)

\* a finished detection that recorded an extension and turned down a candidate
\* whose extension has more than 6 connections and one that names an unknown table
ExtensionValidityWitness ==
    /\ pc = "ext_done"
    /\ out.keys # <<>>
    /\ \E i, j \in 1..Len(one_to_one_candidates(rels)) :
          LET di == determine_extension(one_to_one_candidates(rels)[i], connections)
              dj == determine_extension(one_to_one_candidates(rels)[j], connections)
          IN /\ ConnectionCount(connections, di[1]) > 6
             /\ di[1] \in Neighbours(connections, di[2])
             /\ ~HasKey(out, di[1])
             /\ dj[1] \notin Neighbours(connections, dj[2])
             /\ ~HasKey(out, dj[1])

(***************************************************************************)
(* SpecCat: categorize_tables on the graph of a model.  The tables are the *)
(* endpoints of the chosen relationships and some unconnected tables.      *)
(***************************************************************************)
MaxCatRels == 4

CatRelCatalogue ==
    <<PlainRel("Fact_Sales", "Product"),
      PlainRel("Fact_Sales", "Date"),
      PlainRel("Param", "Date"),
      PlainRel("DateTableTemplate_abc", "Date"),
      Relationship("Product", "ProductDetail", "one", "one", "bothDirections"),
      PlainRel("ProductDetail", "Store"),
      PlainRel("Store", "Category"),
      PlainRel("Category", "Product")>>

CatUnconnected == {"Calc Options", "Customer", "Param", "_Measures"}

Endpoints(relationships) ==
    {relationships[i].fromTable : i \in 1..Len(relationships)}
    \cup {relationships[i].toTable : i \in 1..Len(relationships)}

InitCat ==
    /\ pc = "graph"
    /\ \E chosen \in SUBSET (1..Len(CatRelCatalogue)) :
          /\ Cardinality(chosen) <= MaxCatRels
          /\ rels = SubCatalogue(CatRelCatalogue, chosen)
    /\ \E extra \in SUBSET CatUnconnected : tables = SortedSeq(Endpoints(rels) \cup extra)
    /\ hashOrder \in HashOrders(Range(tables))
    /\ connections = EmptyDict
    /\ cat = None
    /\ work = 1
    /\ out = EmptyDict
    /\ finished = <<>>
    /\ disk = NoDisk
    /\ result = <<>>

CatSpecials ==
    /\ pc = "graph_done"
    /\ cat' = categorize_specials(tables, connections)
    /\ pc' = "cat_facts"
    /\ UNCHANGED <<tables, rels, hashOrder, connections, work, out, finished, disk, result>>

CatFacts ==
    /\ pc = "cat_facts"
    /\ cat' = categorize_facts(cat, connections)
    /\ pc' = "cat_levels"
    /\ UNCHANGED <<tables, rels, hashOrder, connections, work, out, finished, disk, result>>

CatLevels ==
    /\ pc = "cat_levels"
    /\ cat' = categorize_levels(cat, connections, hashOrder)
    /\ pc' = "cat_extensions"
    /\ UNCHANGED <<tables, rels, hashOrder, connections, work, out, finished, disk, result>>

CatExtensions ==
    /\ pc = "cat_extensions"
    /\ cat' = categorize_extensions(cat, rels, connections, hashOrder)
    /\ pc' = "categorized"
    /\ UNCHANGED <<tables, rels, hashOrder, connections, work, out, finished, disk, result>>

NextCat ==
    GraphAddRelationship \/ GraphReturn \/ CatSpecials \/ CatFacts \/ CatLevels \/ CatExtensions

SpecCat == InitCat /\ [][NextCat]_vars

\* how many times a table is listed in the placement buckets
RECURSIVE Occurrences(_, _)
Occurrences(s, t) ==
    IF s = <<>> THEN 0
    ELSE (IF Head(s) = t THEN 1 ELSE 0) + Occurrences(Tail(s), t)

BucketCount(c, t) == Occurrences(all_categorized(c, 1), t)

\* C1: after categorize_tables every input table that is not an auto date
\* table is listed exactly once in the ten placement buckets.
PartitionCompleteness ==
    pc = "categorized" =>
        \A t \in Range(tables) \ Range(cat.auto_date_tables) : BucketCount(cat, t) = 1

(***************************************************************************)
(* SpecAlign: optimize_universal_stack_alignment on stacks of a star       *)
(* schema, the chain families first, then one stack per step.              *)
(***************************************************************************)
MaxAlignRels == 4

AlignRelCatalogue ==
    <<PlainRel("Region", "City"), PlainRel("Region", "Dim_City"), PlainRel("City", "Store"),
      PlainRel("Dim_City", "Store"), PlainRel("Store", "Fact_Sales"),
      PlainRel("City", "Fact_Sales")>>

AlignTables == <<"City", "Dim_City", "Fact_Sales", "Region", "Store">>

NoStacks == [stack_name \in Range(StackNames) |-> <<>>]

\* the table put on a stack, or left out for None
Stacked(stacks, stack_name, table) ==
    IF stack_name = None THEN stacks
    ELSE [stacks EXCEPT ![stack_name] = Append(@, table)]

InitAlign ==
    /\ pc = "align_detect"
    /\ tables = AlignTables
    /\ \E chosen \in SUBSET (1..Len(AlignRelCatalogue)) :
          /\ Cardinality(chosen) <= MaxAlignRels
          /\ rels = SubCatalogue(AlignRelCatalogue, chosen)
    /\ hashOrder \in HashOrders(Range(AlignTables))
    /\ connections = build_relationship_graph(rels, tables)
    /\ cat = None
    /\ \E region \in {"left_l3_dimensions", None},
          city \in {"left_l2_dimensions", "right_l2_dimensions", "left_l1_dimensions"},
          dim_city \in {"left_l2_dimensions", "right_l2_dimensions", None},
          store \in {"left_l1_dimensions", "right_l1_dimensions"},
          store_again \in {"left_l1_dimensions", None} :
          work = [all_stacks |->
                     Stacked(Stacked(Stacked(Stacked(Stacked(Stacked(NoStacks,
                         "fact_tables", "Fact_Sales"), region, "Region"), city, "City"),
                         dim_city, "Dim_City"), store, "Store"), store_again, "Store"),
                  chain_families |-> <<>>,
                  stack |-> 1]
    /\ out = NoStacks
    /\ finished = <<>>
    /\ disk = NoDisk
    /\ result = <<>>

AlignDetect ==
    /\ pc = "align_detect"
    /\ work' = [work EXCEPT
                   !.chain_families = detect_chain_families(work.all_stacks, connections, hashOrder)]
    /\ pc' = "align_organize"
    /\ UNCHANGED <<tables, rels, hashOrder, connections, cat, out, finished, disk, result>>

AlignOrganizeStack ==
    /\ pc = "align_organize"
    /\ work.stack <= Len(StackNames)
    /\ out' = [out EXCEPT ![StackNames[work.stack]] =
                  organize_stack(work.all_stacks[StackNames[work.stack]], work.chain_families)]
    /\ work' = [work EXCEPT !.stack = @ + 1]
    /\ UNCHANGED <<pc, tables, rels, hashOrder, connections, cat, finished, disk, result>>

AlignReturn ==
    /\ pc = "align_organize"
    /\ work.stack > Len(StackNames)
    /\ pc' = "aligned"
    /\ UNCHANGED <<tables, rels, hashOrder, connections, cat, work, out, finished, disk, result>>

NextAlign == AlignDetect \/ AlignOrganizeStack \/ AlignReturn

SpecAlign == InitAlign /\ [][NextAlign]_vars

\* C8: the stacks returned by optimize_universal_stack_alignment hold as many
\* tables as the input stacks, and every table as often as the input stacks
\* did: none is dropped, none is duplicated.
StackCountPreserved ==
    pc = "aligned" =>
        /\ TotalTables(out, 1) = TotalTables(work.all_stacks, 1)
        /\ \A t \in Range(tables) :
              Occurrences(AllStackTables(out, 1), t)
                  = Occurrences(AllStackTables(work.all_stacks, 1), t)

\* a returned alignment with two chain families of the same derived name, a
\* table that belongs to both, a stack that lists a table twice and a stack
\* whose order the reorganization changed
StackCountPreservedWitness ==
    /\ pc = "aligned"
    /\ \E i, j \in 1..Len(work.chain_families) :
          /\ i # j
          /\ work.chain_families[i].name = work.chain_families[j].name
          /\ Range(work.chain_families[i].all_tables)
                 \cap Range(work.chain_families[j].all_tables) # {}
    /\ Occurrences(AllStackTables(work.all_stacks, 1), "Store") = 2
    /\ out # work.all_stacks

(***************************************************************************)
(* SpecEngine: generate_middle_out_layout on a model, run twice on the     *)
(* same table names and relationship records.  The first run enumerates    *)
(* sets in sorted order, the second in any of the orders of HashOrders.    *)
(***************************************************************************)
MaxEngineRels == 4

EngineRelCatalogue ==
    <<PlainRel("Fact_Sales", "Product"),
      PlainRel("Param", "Date"),
      PlainRel("DateTableTemplate_abc", "Date"),
      PlainRel("Date", "Calendar"),
      PlainRel("Fact_Sales", "Dim_Store"),
      PlainRel("Fact_Sales", "Dim_Region"),
      PlainRel("Dim_City", "Dim_Store"),
      PlainRel("Dim_City", "Dim_Region"),
      PlainRel("DateTableTemplate_abc", "Dim_Store"),
      Relationship("Product", "ProductDetail", "one", "one", "bothDirections")>>

EngineUnconnected == {"Customer", "Scenario", "_Measures"}

InitEngine ==
    /\ pc = "engine"
    /\ \E chosen \in SUBSET (1..Len(EngineRelCatalogue)) :
          /\ Cardinality(chosen) <= MaxEngineRels
          /\ rels = SubCatalogue(EngineRelCatalogue, chosen)
    /\ \E extra \in SUBSET EngineUnconnected :
          /\ Cardinality(extra) <= 1
          /\ tables = SortedSeq(Endpoints(rels) \cup extra)
    /\ hashOrder = tables
    /\ connections = EmptyDict
    /\ cat = None
    /\ work = 1
    /\ out = <<>>
    /\ finished = <<>>
    /\ disk = NoDisk
    /\ result = <<>>

\* if not table_names: return []
EngineNoTables ==
    /\ pc = "engine"
    /\ tables = <<>>
    /\ out' = <<>>
    /\ pc' = "returned"
    /\ UNCHANGED <<tables, rels, hashOrder, connections, cat, work, finished, disk, result>>

\* the graph is built (GraphAddRelationship, GraphReturn) and the tables are
\* categorized (CatSpecials, CatFacts, CatLevels, CatExtensions)
EngineBegin ==
    /\ pc = "engine"
    /\ tables # <<>>
    /\ pc' = "graph"
    /\ UNCHANGED <<tables, rels, hashOrder, connections, cat, work, out, finished, disk, result>>

EngineFirstLevel ==
    /\ pc = "categorized"
    /\ work' = layout_first_level(cat, tables, connections, hashOrder)
    /\ pc' = "layout_levels"
    /\ UNCHANGED <<tables, rels, hashOrder, connections, cat, out, finished, disk, result>>

EngineOuterLevels ==
    /\ pc = "layout_levels"
    /\ work' = layout_outer_levels(work, connections, hashOrder)
    /\ pc' = "layout_rules"
    /\ UNCHANGED <<tables, rels, hashOrder, connections, cat, out, finished, disk, result>>

EngineRules ==
    /\ pc = "layout_rules"
    /\ work' = layout_rules(work, connections, hashOrder)
    /\ pc' = "layout_align"
    /\ UNCHANGED <<tables, rels, hashOrder, connections, cat, out, finished, disk, result>>

EngineAlign ==
    /\ pc = "layout_align"
    /\ work' = [aligned_stacks |-> layout_alignment(work, connections, hashOrder)] @@ work
    /\ pc' = "layout_positions"
    /\ UNCHANGED <<tables, rels, hashOrder, connections, cat, out, finished, disk, result>>

EnginePositions ==
    /\ pc = "layout_positions"
    /\ out' = layout_positions(work, work.aligned_stacks)
    /\ pc' = "returned"
    /\ UNCHANGED <<tables, rels, hashOrder, connections, cat, work, finished, disk, result>>

\* the second run: same tables, same relationship records, its own hash order
EngineRerun ==
    /\ pc = "returned"
    /\ finished = <<>>
    /\ finished' = <<[categorization |-> cat, positions |-> out]>>
    /\ hashOrder' \in HashOrders(Range(tables))
    /\ connections' = EmptyDict
    /\ cat' = None
    /\ work' = 1
    /\ out' = <<>>
    /\ pc' = "engine"
    /\ UNCHANGED <<tables, rels, disk, result>>

NextEngine ==
    \/ EngineNoTables \/ EngineBegin
    \/ GraphAddRelationship \/ GraphReturn
    \/ CatSpecials \/ CatFacts \/ CatLevels \/ CatExtensions
    \/ EngineFirstLevel \/ EngineOuterLevels \/ EngineRules \/ EngineAlign \/ EnginePositions
    \/ EngineRerun

SpecEngine == InitEngine /\ [][NextEngine]_vars

\* the table names of the returned Position list
PositionedTables == [k \in 1..Len(out) |-> out[k].nodeIndex]

\* C2: the returned Position list never holds the same table name twice.
NoDuplicatePositions == pc = "returned" => NoDuplicates(PositionedTables)

\* the Phase-0 exclusions of the run
AutoDateExclusions == IF tables = <<>> THEN {} ELSE Range(cat.auto_date_tables)

\* C3: the engine returns as many Position records as there are input
\* tables that are not Phase-0 auto-date exclusions, one for each of them.
PositionCompleteness ==
    pc = "returned" =>
        /\ Len(out) = Cardinality(Range(tables) \ AutoDateExclusions)
        /\ Range(tables) \ AutoDateExclusions \subseteq Range(PositionedTables)

\* C7: the second run on the same table names and relationship records
\* returns the Categorization and the Position list of the first run.
Determinism ==
    (pc = "returned" /\ finished # <<>>) =>
        /\ finished[1].categorization = cat
        /\ finished[1].positions = out

\* the auto-generated date naming convention
auto_date_prefixes == {"datetabletemplate_", "localdatetable_"}

AutoDateNamed == {t \in Range(tables) : AnyPrefix(name_lower[t], auto_date_prefixes)}

\* C9: a table named like an auto-generated date table is recorded in
\* auto_date_tables, is in no placement bucket and gets no Position.
AutoDateExcluded ==
    /\ (pc \in {"categorized", "layout_levels", "layout_rules", "layout_align",
                "layout_positions"} \/ (pc = "returned" /\ tables # <<>>)) =>
           \A t \in AutoDateNamed :
               /\ InSeq(t, cat.auto_date_tables)
               /\ BucketCount(cat, t) = 0
    /\ pc = "returned" => \A t \in AutoDateNamed : ~InSeq(t, PositionedTables)

Overlap(p, r) ==
    /\ p.x < r.x + r.width
    /\ r.x < p.x + p.width
    /\ p.y < r.y + r.height
    /\ r.y < p.y + p.height

\* C10: no two rectangles of the returned Position list overlap.
NoOverlap ==
    pc = "returned" => \A i, j \in 1..Len(out) : i # j => ~Overlap(out[i], out[j])

(***************************************************************************)
(* SpecApply: apply_middle_out_layout() on the PBIP folder of a model made *)
(* of the tables and relationships of the scenarios A, B and C.  The       *)
(* folder may lack its .SemanticModel folder, its relationships.tmdl (or   *)
(* hold one that cannot be read) and its diagramLayout.json.               *)
(***************************************************************************)
\* the records of relationships.tmdl, [] when the model folder or the file is
\* missing and when reading the file raises
parse_relationships_from_tmdl(folder) ==
    IF ~folder.semantic_model THEN <<>>
    ELSE IF folder.relationships.status = "missing" THEN <<>>
    ELSE IF folder.relationships.status = "unreadable" THEN <<>>
    ELSE folder.relationships.records

\* the node written to diagramLayout.json for a Position
enhanced_node(pos) ==
    [nodeIndex |-> pos.nodeIndex, x |-> pos.x, y |-> pos.y, width |-> pos.width, height |-> pos.height]

enhanced_nodes(new_positions) == [k \in 1..Len(new_positions) |-> enhanced_node(new_positions[k])]

\* save_diagram_layout: writes the nodes when the folder has a diagramLayout.json
save_diagram_layout(folder, nodes) ==
    IF folder.layout = <<>> THEN [saved |-> FALSE, folder |-> folder]
    ELSE [saved |-> TRUE, folder |-> [folder EXCEPT !.layout = <<nodes>>]]

failure_result(error, operation) == [success |-> FALSE, error |-> error, operation |-> operation]

success_result(new_positions, saved) ==
    [success |-> TRUE,
     operation |-> "apply_middle_out_layout_universal_modular",
     changes_saved |-> saved,
     tables_arranged |-> Len(new_positions),
     preview_positions |-> SubSeq(new_positions, 1, Min2(5, Len(new_positions)))]

any_positions(new_positions) == FALSE

\* not new_positions
no_positions(new_positions) == new_positions = <<>>

ScenarioRelCatalogue ==
    <<PlainRel("Sales", "Date"),
      PlainRel("Sales", "Product"),
      PlainRel("Sales", "Customer"),
      Relationship("Product", "ProductCategory", "one", "one", "bothDirections")>>

ScenarioUnconnected == {"Ghost", "DateTableTemplate_abc", "Scenario"}

\* the nodes of a diagramLayout.json written before the run
OldNodes == <<[nodeIndex |-> "Ghost", x |-> 0, y |-> 0, width |-> 200, height |-> 180]>>

InitApply ==
    /\ pc = "apply"
    /\ \E chosen \in SUBSET (1..Len(ScenarioRelCatalogue)), extra \in SUBSET ScenarioUnconnected,
          present \in BOOLEAN, status \in {"present", "missing", "unreadable"},
          layout \in {<<>>, <<OldNodes>>} :
          LET records == SubCatalogue(ScenarioRelCatalogue, chosen)
          IN /\ Cardinality(extra) <= 1
             /\ ~present => chosen = {} /\ extra = {} /\ status = "missing" /\ layout = <<>>
             /\ tables = SortedSeq(Endpoints(records) \cup extra)
             /\ disk = [semantic_model |-> present,
                        relationships |-> [status |-> status,
                                           records |-> IF status = "missing" THEN <<>> ELSE records],
                        layout |-> layout]
    /\ hashOrder \in HashOrders(Range(tables))
    /\ rels = <<>>
    /\ connections = EmptyDict
    /\ cat = None
    /\ work = 1
    /\ out = <<>>
    /\ finished = <<>>
    /\ result = <<>>

\* if not self.base_engine.semantic_model_path: return the failure
ApplyNoModel ==
    /\ pc = "apply"
    /\ ~disk.semantic_model
    /\ result' = <<failure_result("No .SemanticModel folder found", "apply_middle_out_layout")>>
    /\ pc' = "applied"
    /\ UNCHANGED <<tables, rels, hashOrder, connections, cat, work, out, finished, disk>>

\* new_positions = self.generate_middle_out_layout(...)
ApplyGenerate ==
    /\ pc = "apply"
    /\ disk.semantic_model
    /\ pc' = "engine"
    /\ UNCHANGED <<tables, rels, hashOrder, connections, cat, work, out, finished, disk, result>>

\* build_relationship_graph begins by parsing relationships.tmdl
ApplyParse ==
    /\ pc = "engine"
    /\ tables # <<>>
    /\ rels' = parse_relationships_from_tmdl(disk)
    /\ pc' = "graph"
    /\ UNCHANGED <<tables, hashOrder, connections, cat, work, out, finished, disk, result>>

\* if not new_positions: return the failure
ApplyFail ==
    /\ pc = "returned"
    /\ no_positions(out)
    /\ result' = <<failure_result("No tables found or failed to generate positions",
                                  "apply_middle_out_layout")>>
    /\ pc' = "applied"
    /\ UNCHANGED <<tables, rels, hashOrder, connections, cat, work, out, finished, disk>>

\* the nodes are saved (save_changes is True) and the success result returned
ApplySave ==
    /\ pc = "returned"
    /\ ~no_positions(out)
    /\ LET written == save_diagram_layout(disk, enhanced_nodes(out))
       IN /\ disk' = written.folder
          /\ result' = <<success_result(out, written.saved)>>
    /\ pc' = "applied"
    /\ UNCHANGED <<tables, rels, hashOrder, connections, cat, work, out, finished>>

NextApply ==
    \/ ApplyNoModel \/ ApplyGenerate
    \/ EngineNoTables \/ ApplyParse
    \/ GraphAddRelationship \/ GraphReturn
    \/ CatSpecials \/ CatFacts \/ CatLevels \/ CatExtensions
    \/ EngineFirstLevel \/ EngineOuterLevels \/ EngineRules \/ EngineAlign \/ EnginePositions
    \/ ApplyFail \/ ApplySave

SpecApply == InitApply /\ [][NextApply]_vars

\* the run's model is scenario A and its relationships.tmdl can be read
ScenarioA ==
    /\ Range(tables) = {"Sales", "Date", "Product", "Customer"}
    /\ disk.relationships.status = "present"
    /\ Len(disk.relationships.records) = 3

AfterCategorization ==
    pc \in {"categorized", "layout_levels", "layout_rules", "layout_align", "layout_positions",
            "returned", "applied"}

PositionOf(table) == out[CHOOSE k \in 1..Len(out) : out[k].nodeIndex = table]

\* C11: in scenario A, Sales is a fact by the connection-count rule, Date,
\* Product and Customer are star-schema tables and L1 dimensions, Date is
\* tagged calendar, and Date is positioned in the center column above Sales.
ScenarioAExpected ==
    /\ (ScenarioA /\ AfterCategorization) =>
          /\ InSeq("Sales", cat.fact_tables)
          /\ ~name_scores["Sales"].explicit_fact
          /\ ConnectionCount(connections, "Sales") >= 3
          /\ \A t \in {"Date", "Product", "Customer"} :
                /\ is_star_schema_table(t, connections, Range(cat.fact_tables))
                /\ InSeq(t, cat.l1_dimensions)
          /\ name_scores["Date"].is_calendar
    /\ (ScenarioA /\ pc \in {"returned", "applied"}) =>
          /\ InSeq("Date", PositionedTables) /\ InSeq("Sales", PositionedTables)
          /\ PositionOf("Date").x = PositionOf("Sales").x
          /\ PositionOf("Date").y < PositionOf("Sales").y

\* C12: when there is no table, or every table is a Phase-0 exclusion, so that
\* no Position is generated, apply_middle_out_layout returns a failure with an
\* error, returns no Position and leaves diagramLayout.json as it was.
EmptyLayoutFails ==
    (pc = "applied" /\ (tables = <<>> \/ Range(tables) \subseteq AutoDateNames \/ out = <<>>)) =>
        /\ out = <<>>
        /\ result[1].success = FALSE
        /\ "error" \in DOMAIN result[1]
        /\ "preview_positions" \notin DOMAIN result[1]
        /\ disk.layout \in {<<>>, <<OldNodes>>}

\* a model whose only table is an auto date table, applied to a folder that
\* holds a diagramLayout.json
EmptyLayoutFailsWitness ==
    /\ pc = "applied"
    /\ tables = <<"DateTableTemplate_abc">>
    /\ cat.auto_date_tables = tables
    /\ result[1].success = FALSE
    /\ disk.layout = <<OldNodes>>

\* C13: when relationships.tmdl is missing or cannot be read while the model
\* has tables, apply_middle_out_layout returns a failure and no Position is
\* generated, returned or saved.
MissingSourceFails ==
    (pc = "applied" /\ tables # <<>> /\ disk.relationships.status # "present") =>
        /\ out = <<>>
        /\ result[1].success = FALSE
        /\ "preview_positions" \notin DOMAIN result[1]
        /\ disk.layout \in {<<>>, <<OldNodes>>}

(***************************************************************************)
(* SpecLevels: categorize_tables on snowflake models: chains of dimensions *)
(* up to four steps away from the fact table, components without a fact,   *)
(* and one-to-one relationships between dimensions of every level.         *)
(***************************************************************************)
MaxLevelRels == 5

OneToOne(a, b) == Relationship(a, b, "one", "one", "bothDirections")

LevelRelCatalogue ==
    <<PlainRel("Fact_Sales", "Dim_Store"),
      PlainRel("Dim_City", "Dim_Store"),
      PlainRel("Dim_Region", "Dim_City"),
      PlainRel("Category", "Dim_Region"),
      OneToOne("Category", "Supplier"),
      PlainRel("Fact_Sales", "Dim_Region"),
      OneToOne("Supplier", "Dim_Region"),
      OneToOne("Dim_Store", "Dim_Region"),
      PlainRel("Dim_Fact_Map", "Category"),
      PlainRel("Fact_Sales", "Date")>>

LevelUnconnected == {"Ghost", "_Measures"}

InitLevels ==
    /\ pc = "graph"
    /\ \E chosen \in SUBSET (1..Len(LevelRelCatalogue)) :
          /\ Cardinality(chosen) <= MaxLevelRels
          /\ rels = SubCatalogue(LevelRelCatalogue, chosen)
    /\ \E extra \in SUBSET LevelUnconnected :
          /\ Cardinality(extra) <= 1
          /\ tables = SortedSeq(Endpoints(rels) \cup extra)
    /\ hashOrder \in HashOrders(Range(tables))
    /\ connections = EmptyDict
    /\ cat = None
    /\ work = 1
    /\ out = EmptyDict
    /\ finished = <<>>
    /\ disk = NoDisk
    /\ result = <<>>

SpecLevels == InitLevels /\ [][NextCat]_vars

\* the input tables that are not Phase-0 exclusions
FilteredTables == Range(tables) \ Range(cat.auto_date_tables)

\* C14: after categorize_tables every input table that is not a Phase-0
\* exclusion is listed in at least one of the ten placement buckets.
EveryTableCategorized ==
    pc = "categorized" => \A t \in FilteredTables : BucketCount(cat, t) >= 1

\* a categorization with a repositioned extension, an unconnected table
\* and a dimension of every level
EveryTableCategorizedWitness ==
    /\ pc = "categorized"
    /\ cat.dimension_extensions.keys # <<>>
    /\ \E t \in Range(tables) : ConnectionCount(connections, t) = 0
    /\ cat.l1_dimensions # <<>> /\ cat.l2_dimensions # <<>> /\ cat.l3_dimensions # <<>>

\* the tables that connect to the table from outside the fact set
OutsideConnections(t, conn, fact_tables) ==
    {other \in DOMAIN conn.val \ fact_tables : other # t /\ t \in conn.val[other]}

\* C15: is_star_schema_table is true exactly for the tables that have a
\* connection into the fact set and no connection from outside the fact set.
StarSchemaRule ==
    pc \in {"cat_levels", "cat_extensions", "categorized"} =>
        \A t \in Range(tables) :
            is_star_schema_table(t, connections, Range(cat.fact_tables))
            <=> /\ Neighbours(connections, t) \cap Range(cat.fact_tables) # {}
                /\ OutsideConnections(t, connections, Range(cat.fact_tables)) = {}

\* the tables that Phase 2 scores: connected, not claimed in Phase 1 and not
\* special-disconnected
ScoredTables ==
    {t \in FilteredTables \ phase1_tables(cat) :
        ConnectionCount(connections, t) # 0 /\ t \notin SpecialDisconnectedNames}

HasFactToken(t) == \E token \in {"fact_", "_fact", "fact ", " fact"} : Contains(name_lower[t], token)

HasDimensionPrefix(t) == \E prefix \in {"dim_", "dim-", "dim ", "d_"} : StartsWith(name_lower[t], prefix)

\* C16: calculate_table_score classifies a scored table by the first rule that
\* applies: fact-naming token, dimension prefix, three or more connections,
\* and only then the comparison of the fact score with the dimension score.
ScoringPriority ==
    pc \in {"cat_facts", "cat_levels", "cat_extensions", "categorized"} =>
        \A t \in ScoredTables :
            LET score == calculate_table_score(t, connections)
            IN score.classification =
                  IF HasFactToken(t) THEN "fact"
                  ELSE IF HasDimensionPrefix(t) THEN "dimension"
                  ELSE IF ConnectionCount(connections, t) >= 3 THEN "fact"
                  ELSE IF score.fact_score > score.dim_score THEN "fact"
                  ELSE "dimension"

\* a model that exercises the four rules: a fact token behind a dimension
\* prefix, a dimension prefix with three connections, three connections
\* without naming, and a table left to the score comparison
ScoringPriorityWitness ==
    /\ pc = "categorized"
    /\ \E t \in ScoredTables : HasFactToken(t) /\ HasDimensionPrefix(t)
    /\ \E t \in ScoredTables :
          ~HasFactToken(t) /\ HasDimensionPrefix(t) /\ ConnectionCount(connections, t) >= 3
    /\ \E t \in ScoredTables :
          /\ ~HasFactToken(t) /\ ~HasDimensionPrefix(t)
          /\ ConnectionCount(connections, t) >= 3
          /\ name_scores[t].dim > name_scores[t].fact
    /\ \E t \in ScoredTables :
          ~HasFactToken(t) /\ ~HasDimensionPrefix(t) /\ ConnectionCount(connections, t) < 3

\* the connected tables that Phase 3 places by their distance to the facts:
\* not claimed by Phase 1 or 2, not calendar-named, not special-disconnected
LeveledTables ==
    {t \in FilteredTables \ (phase1_tables(cat) \cup Range(cat.fact_tables)) :
        /\ ConnectionCount(connections, t) # 0
        /\ ~name_scores[t].is_calendar
        /\ t \notin SpecialDisconnectedNames}

DistanceToFacts(t) == ShortestPathLength(connections, t, Range(cat.fact_tables))

\* the dimension level a table is listed in, 0 when it is in none
DimensionLevel(c, t) ==
    IF InSeq(t, c.l1_dimensions) THEN 1
    ELSE IF InSeq(t, c.l2_dimensions) THEN 2
    ELSE IF InSeq(t, c.l3_dimensions) THEN 3
    ELSE IF InSeq(t, c.l4_plus_dimensions) THEN 4
    ELSE 0

\* C17: Phase 3 puts a table at distance 1, 2, 3 from the fact set in L1, L2,
\* L3 and a table at a finite distance of 4 or more in L4+; the tables that
\* are no confirmed extension keep that level in the returned Categorization.
LevelByDistance ==
    /\ pc = "cat_extensions" =>
          \A t \in LeveledTables :
              DistanceToFacts(t) # UNREACHABLE =>
                  DimensionLevel(cat, t) = Min2(DistanceToFacts(t), 4)
    /\ pc = "categorized" =>
          \A t \in LeveledTables :
              (DistanceToFacts(t) # UNREACHABLE /\ ~HasKey(cat.dimension_extensions, t)) =>
                  DimensionLevel(cat, t) = Min2(DistanceToFacts(t), 4)

\* a leveled chain with a table at each of the distances 1, 2, 3 and 4
LevelByDistanceWitness ==
    /\ pc = "cat_extensions"
    /\ \A d \in 1..4 : \E t \in LeveledTables : DistanceToFacts(t) = d /\ DimensionLevel(cat, t) = d

\* C18: Phase 3 puts a connected dimension from which no fact table can be
\* reached in L1.
UnreachableFallsBackToL1 ==
    pc = "cat_extensions" =>
        \A t \in LeveledTables :
            DistanceToFacts(t) = UNREACHABLE => DimensionLevel(cat, t) = 1

\* C19: in the returned Categorization every confirmed dimension extension is
\* one dimension level further from the facts than its base, and in L4+ when
\* its base is in L4+.
ExtensionOneLevelFurther ==
    pc = "categorized" =>
        \A extension \in Range(cat.dimension_extensions.keys) :
            LET base == cat.dimension_extensions.val[extension][1]
            IN /\ DimensionLevel(cat, base) >= 1
               /\ DimensionLevel(cat, extension) = Min2(DimensionLevel(cat, base) + 1, 4)

(***************************************************************************)
(* SpecPlace: optimize_dimension_placement on a level list, a graph and a  *)
(* calendar list: the even split, the time/period moves, the connected     *)
(* pair moves, then sort_tables_by_connections on each side.               *)
(***************************************************************************)
MaxPlaceRels == 3

MaxPlaceTables == 3

PlaceRelCatalogue ==
    <<PlainRel("Store", "Calendar"), PlainRel("Customer", "Store"), PlainRel("Brand", "Customer"),
      PlainRel("Brand", "Store"), PlainRel("Date", "Customer"), PlainRel("Sales", "Customer"),
      PlainRel("Sales", "Brand"), PlainRel("Sales", "Store")>>

PlaceLevelTables == {"Brand", "Customer", "Date", "Store"}

\* the duplicate-free level lists
PlaceLevelLists ==
    UNION {{s \in [1..n -> PlaceLevelTables] : NoDuplicates(s)} : n \in 0..MaxPlaceTables}

InitPlace ==
    /\ pc = "place"
    /\ \E chosen \in SUBSET (1..Len(PlaceRelCatalogue)) :
          /\ Cardinality(chosen) <= MaxPlaceRels
          /\ rels = SubCatalogue(PlaceRelCatalogue, chosen)
    /\ \E l1_dimensions \in PlaceLevelLists, calendar_tables \in {<<>>, <<"Calendar">>} :
          /\ cat = [l1_dimensions |-> l1_dimensions,
                    fact_tables |-> <<"Sales">>,
                    calendar_tables |-> calendar_tables]
          /\ tables = SortedSeq(Range(l1_dimensions) \cup Endpoints(rels) \cup {"Sales"}
                                \cup Range(calendar_tables))
    /\ hashOrder \in HashOrders(Range(tables))
    /\ connections = build_relationship_graph(rels, tables)
    /\ work = None
    /\ out = <<>>
    /\ finished = <<>>
    /\ disk = NoDisk
    /\ result = <<>>

\* if not l1_dimensions: return [], []
PlaceEmpty ==
    /\ pc = "place"
    /\ cat.l1_dimensions = <<>>
    /\ out' = <<<<>>, <<>>>>
    /\ pc' = "placed"
    /\ UNCHANGED <<tables, rels, hashOrder, connections, cat, work, finished, disk, result>>

\* the time/period tables, the connected pairs and the even split
PlaceSplit ==
    /\ pc = "place"
    /\ cat.l1_dimensions # <<>>
    /\ LET l1_dimensions == cat.l1_dimensions
           mid_point == Len(l1_dimensions) \div 2
       IN work' = [time_period_tables |->
                       identify_time_period_tables(l1_dimensions, cat.calendar_tables, connections),
                   special_pairs |-> identify_connected_pairs(l1_dimensions, connections, hashOrder),
                   sides |-> <<SubSeq(l1_dimensions, 1, mid_point),
                               SubSeq(l1_dimensions, mid_point + 1, Len(l1_dimensions))>>]
    /\ pc' = "place_time"
    /\ UNCHANGED <<tables, rels, hashOrder, connections, cat, out, finished, disk, result>>

PlaceTimeTables ==
    /\ pc = "place_time"
    /\ work' = [work EXCEPT !.sides = time_tables_left(@, work.time_period_tables, 1)]
    /\ pc' = "place_pairs"
    /\ UNCHANGED <<tables, rels, hashOrder, connections, cat, out, finished, disk, result>>

PlacePairs ==
    /\ pc = "place_pairs"
    /\ work' = [work EXCEPT !.sides = pairs_same_side(@, work.special_pairs, 1)]
    /\ pc' = "place_sort"
    /\ UNCHANGED <<tables, rels, hashOrder, connections, cat, out, finished, disk, result>>

PlaceSort ==
    /\ pc = "place_sort"
    /\ out' = <<sort_tables_by_connections(work.sides[1], connections,
                                           work.time_period_tables, hashOrder),
                sort_tables_by_connections(work.sides[2], connections,
                                           work.time_period_tables, hashOrder)>>
    /\ pc' = "placed"
    /\ UNCHANGED <<tables, rels, hashOrder, connections, cat, work, finished, disk, result>>

NextPlace == PlaceEmpty \/ PlaceSplit \/ PlaceTimeTables \/ PlacePairs \/ PlaceSort

SpecPlace == InitPlace /\ [][NextPlace]_vars

\* the steps return what optimize_dimension_placement returns in one piece
PlacedAsInEngine ==
    pc = "placed" =>
        out = optimize_dimension_placement(cat.l1_dimensions, cat.fact_tables, connections,
                                           cat.calendar_tables, hashOrder)

\* the tables of the level that are time/period-named or connect to a calendar table
TimePeriodTables ==
    {t \in Range(cat.l1_dimensions) :
        \/ t \in TimePeriodNames
        \/ Neighbours(connections, t) \cap Range(cat.calendar_tables) # {}}

\* C20: after optimize_dimension_placement every time/period table of the
\* level is in the left list and precedes every other table of the left list.
TimeTablesHeadLeft ==
    pc = "placed" =>
        LET left == out[1]
        IN /\ \A t \in TimePeriodTables : InSeq(t, left)
           /\ \A i, j \in 1..Len(left) :
                 (left[i] \in TimePeriodTables /\ left[j] \notin TimePeriodTables) => i < j

\* the side of the returned placement that holds a table: "left", "right" or None
PlacedSide(t) ==
    IF InSeq(t, out[1]) THEN "left" ELSE IF InSeq(t, out[2]) THEN "right" ELSE None

DetectedPairs == Range(identify_connected_pairs(cat.l1_dimensions, connections, hashOrder))

\* C21: after optimize_dimension_placement both tables of every connected pair
\* that identify_connected_pairs detects in the level are on the same side.
PairsOnSameSide ==
    pc = "placed" => \A p \in DetectedPairs : PlacedSide(p[1]) = PlacedSide(p[2])

\* C30: the left and right lists that optimize_dimension_placement returns are
\* disjoint and together hold exactly the tables of the level list, each once.
PlacementConserved ==
    pc = "placed" =>
        /\ Range(out[1]) \cap Range(out[2]) = {}
        /\ Range(out[1]) \cup Range(out[2]) = Range(cat.l1_dimensions)
        /\ NoDuplicates(out[1] \o out[2])
        /\ Len(out[1]) + Len(out[2]) = Len(cat.l1_dimensions)

\* a level of three tables with a time table and a connected pair, where the
\* moves and the sort changed both sides of the even split
PlacementConservedWitness ==
    /\ pc = "placed"
    /\ Len(cat.l1_dimensions) = 3
    /\ work.time_period_tables # <<>>
    /\ work.special_pairs # <<>>
    /\ out[1] # <<>>
    /\ out[2] # <<>>
    /\ out[1] # SubSeq(cat.l1_dimensions, 1, 1)
    /\ out[2] # SubSeq(cat.l1_dimensions, 2, 3)

(***************************************************************************)
(* SpecOuter: place_l2_dimensions_near_l1 and then                         *)
(* place_l3_dimensions_near_l2 on level lists and a graph, the unplaced L2 *)
(* tables of Phase 2 one per step.                                         *)
(***************************************************************************)
MaxOuterRels == 3

MaxOuterTables == 2

OuterRelCatalogue ==
    <<PlainRel("City", "Store"), PlainRel("Category", "Product"), PlainRel("Brand", "City"),
      PlainRel("Brand", "Category"), PlainRel("City", "Product"), PlainRel("Region", "City"),
      PlainRel("Region", "Category"), PlainRel("Supplier", "Region")>>

OuterL2Tables == {"Brand", "Category", "City"}

OuterL3Lists == {<<>>, <<"Region">>, <<"Supplier">>, <<"Region", "Supplier">>,
                 <<"Supplier", "Region">>}

OuterL2Lists ==
    UNION {{s \in [1..n -> OuterL2Tables] : NoDuplicates(s)} : n \in 0..MaxOuterTables}

InitOuter ==
    /\ pc = "place_l2"
    /\ \E chosen \in SUBSET (1..Len(OuterRelCatalogue)) :
          /\ Cardinality(chosen) <= MaxOuterRels
          /\ rels = SubCatalogue(OuterRelCatalogue, chosen)
    /\ \E l2_dimensions \in OuterL2Lists, l3_dimensions \in OuterL3Lists :
          /\ cat = [l2_dimensions |-> l2_dimensions, l3_dimensions |-> l3_dimensions]
          /\ tables = SortedSeq({"Product", "Store"} \cup Range(l2_dimensions)
                                \cup Range(l3_dimensions) \cup Endpoints(rels))
    /\ hashOrder \in HashOrders(Range(tables))
    /\ connections = build_relationship_graph(rels, tables)
    /\ work = [left_l1 |-> <<"Store">>, right_l1 |-> <<"Product">>,
               left_l2 |-> <<>>, right_l2 |-> <<>>,
               left_l3 |-> <<>>, right_l3 |-> <<>>,
               unplaced |-> <<>>, i |-> 1]
    /\ out = <<>>
    /\ finished = <<>>
    /\ disk = NoDisk
    /\ result = <<>>

\* if not l2_dimensions: return [], []
PlaceL2Empty ==
    /\ pc = "place_l2"
    /\ cat.l2_dimensions = <<>>
    /\ pc' = "place_l3"
    /\ UNCHANGED <<tables, rels, hashOrder, connections, cat, work, out, finished, disk, result>>

\* Phase 1: the L2 tables with a connection into L1 follow their primary L1
PlaceL2Partner ==
    /\ pc = "place_l2"
    /\ cat.l2_dimensions # <<>>
    /\ LET st == place_by_partner([left |-> <<>>, right |-> <<>>, placed |-> {}],
                                  cat.l2_dimensions, 1, work.left_l1, work.right_l1,
                                  connections, hashOrder)
       IN work' = [work EXCEPT !.left_l2 = st.left, !.right_l2 = st.right,
                               !.unplaced = Without(cat.l2_dimensions, st.placed), !.i = 1]
    /\ pc' = "place_l2_unplaced"
    /\ UNCHANGED <<tables, rels, hashOrder, connections, cat, out, finished, disk, result>>

\* Phase 2, one unplaced L2 table: by side score, else the shorter side
PlaceL2Unplaced ==
    /\ pc = "place_l2_unplaced"
    /\ work.i <= Len(work.unplaced)
    /\ LET sides == place_by_side_score(<<work.left_l2, work.right_l2>>,
                                        <<work.unplaced[work.i]>>, 1,
                                        work.left_l1, work.right_l1, connections)
       IN work' = [work EXCEPT !.left_l2 = sides[1], !.right_l2 = sides[2], !.i = @ + 1]
    /\ UNCHANGED <<pc, tables, rels, hashOrder, connections, cat, out, finished, disk, result>>

PlaceL2Return ==
    /\ pc = "place_l2_unplaced"
    /\ work.i > Len(work.unplaced)
    /\ pc' = "place_l3"
    /\ UNCHANGED <<tables, rels, hashOrder, connections, cat, work, out, finished, disk, result>>

\* if not l3_dimensions: return [], []
PlaceL3Empty ==
    /\ pc = "place_l3"
    /\ cat.l3_dimensions = <<>>
    /\ out' = <<<<>>, <<>>>>
    /\ pc' = "outer_placed"
    /\ UNCHANGED <<tables, rels, hashOrder, connections, cat, work, finished, disk, result>>

\* the L3 tables with a connection into L2 follow their primary L2, the
\* others go to the shorter side
PlaceL3Partner ==
    /\ pc = "place_l3"
    /\ cat.l3_dimensions # <<>>
    /\ LET st == place_by_partner([left |-> <<>>, right |-> <<>>, placed |-> {}],
                                  cat.l3_dimensions, 1, work.left_l2, work.right_l2,
                                  connections, hashOrder)
           balanced == balance_sides(<<st.left, st.right>>,
                                     Without(cat.l3_dimensions, st.placed), 1)
       IN work' = [work EXCEPT !.left_l3 = balanced[1], !.right_l3 = balanced[2]]
    /\ pc' = "place_l3_validate"
    /\ UNCHANGED <<tables, rels, hashOrder, connections, cat, out, finished, disk, result>>

\* the validation and correction loop
PlaceL3Correct ==
    /\ pc = "place_l3_validate"
    /\ out' = correct_misplacements(
                  <<work.left_l3, work.right_l3>>,
                  find_misplaced_l3_tables(work.left_l3, work.right_l3, work.left_l2,
                                           work.right_l2, connections, hashOrder),
                  1)
    /\ pc' = "outer_placed"
    /\ UNCHANGED <<tables, rels, hashOrder, connections, cat, work, finished, disk, result>>

NextOuter ==
    \/ PlaceL2Empty \/ PlaceL2Partner \/ PlaceL2Unplaced \/ PlaceL2Return
    \/ PlaceL3Empty \/ PlaceL3Partner \/ PlaceL3Correct

SpecOuter == InitOuter /\ [][NextOuter]_vars

\* the steps return what the two placement functions return in one piece
OuterAsInEngine ==
    pc = "outer_placed" =>
        LET l2 == place_l2_dimensions_near_l1(cat.l2_dimensions, work.left_l1, work.right_l1,
                                              connections, hashOrder)
        IN /\ l2 = <<work.left_l2, work.right_l2>>
           /\ out = place_l3_dimensions_near_l2(cat.l3_dimensions, l2[1], l2[2],
                                                connections, hashOrder)

\* C22: an L2 table with no connection into L1 is placed on the L2 list that
\* holds fewer tables at that moment, the left one on a tie, whatever placed
\* L2 tables it is connected to.
BalanceFallback ==
    [][(pc = "place_l2_unplaced" /\ work.i <= Len(work.unplaced)) =>
          LET l2_table == work.unplaced[work.i]
          IN /\ Neighbours(connections, l2_table) \cap Range(work.left_l1 \o work.right_l1) = {}
             /\ IF Len(work.left_l2) <= Len(work.right_l2)
                THEN /\ work'.left_l2 = Append(work.left_l2, l2_table)
                     /\ work'.right_l2 = work.right_l2
                ELSE /\ work'.left_l2 = work.left_l2
                     /\ work'.right_l2 = Append(work.right_l2, l2_table)]_vars

\* the L3 tables that have a connection to an L2 table
ConnectedL3Tables ==
    {t \in Range(cat.l3_dimensions) :
        Neighbours(connections, t) \cap Range(work.left_l2 \o work.right_l2) # {}}

\* the connected L2 tables with the minimum total connection count
PrimaryParents(t) ==
    LET connected_l2s == Neighbours(connections, t) \cap Range(work.left_l2 \o work.right_l2)
    IN {p \in connected_l2s :
           \A q \in connected_l2s : ConnectionCount(connections, p) <= ConnectionCount(connections, q)}

\* C23: when place_l3_dimensions_near_l2 returns, every L3 table connected to
\* an L2 table is on the side of its primary L2 parent, a connected L2 table
\* with the fewest connections, and the misplacement detector finds nothing.
L3FollowsPrimaryParent ==
    pc = "outer_placed" =>
        /\ \A t \in ConnectedL3Tables :
              LET primary == get_primary_connection(
                                 Neighbours(connections, t) \cap Range(work.left_l2 \o work.right_l2),
                                 connections, hashOrder)
              IN /\ primary \in PrimaryParents(t)
                 /\ InSeq(primary, work.left_l2) => (InSeq(t, out[1]) /\ ~InSeq(t, out[2]))
                 /\ InSeq(primary, work.right_l2) => (InSeq(t, out[2]) /\ ~InSeq(t, out[1]))
        /\ find_misplaced_l3_tables(out[1], out[2], work.left_l2, work.right_l2,
                                    connections, hashOrder) = <<>>

\* an L3 table with two L2 parents on different sides and different connection
\* counts is on the right with its primary parent, another L3 table was balanced
L3FollowsPrimaryParentWitness ==
    /\ pc = "outer_placed"
    /\ work.left_l2 # <<>>
    /\ work.right_l2 # <<>>
    /\ \E t \in ConnectedL3Tables :
          /\ Neighbours(connections, t) \cap Range(work.left_l2) # {}
          /\ Neighbours(connections, t) \cap Range(work.right_l2) # {}
          /\ Cardinality(PrimaryParents(t)) = 1
          /\ InSeq(t, out[2])
    /\ Range(cat.l3_dimensions) \ ConnectedL3Tables # {}

(***************************************************************************)
(* SpecRules: apply_opposite_side_placement on the eight side lists of a   *)
(* placement and a graph, one detected pair per step.                      *)
(***************************************************************************)
MaxRuleRels == 3

\* three hub tables share the same neighbours; Supplier - Vendor is alone
RuleHubRels ==
    <<PlainRel("Brand", "Sales"), PlainRel("Brand", "Fact_Sales"),
      PlainRel("Category", "Sales"), PlainRel("Category", "Fact_Sales"),
      PlainRel("Category", "Warehouse"), PlainRel("City", "Sales"),
      PlainRel("City", "Fact_Sales"), PlainRel("City", "Warehouse")>>

RuleRelCatalogue ==
    <<PlainRel("Brand", "Category"), PlainRel("Brand", "City"), PlainRel("Category", "City"),
      PlainRel("Supplier", "Vendor"), PlainRel("Brand", "Warehouse")>>

\* the side lists each dimension table can start in; None: in no list
RuleStartCategories ==
    [Brand |-> {"l1_dimension_left", "l2_dimension_right"},
     Category |-> {"l1_dimension_left", "l1_dimension_right"},
     City |-> {"l1_dimension_right", "l2_dimension_left"},
     Supplier |-> {"l3_dimension_left", None},
     Vendor |-> {"l3_dimension_left", "l3_dimension_right", "l4_plus_dimension_left"}]

RuleDimensions == <<"Brand", "Category", "City", "Supplier", "Vendor">>

\* the side lists for a choice of start categories, the tables in name order
StartSides(start) ==
    [category \in Range(PlacementCategories) |->
        SelectSeq(RuleDimensions, LAMBDA t : start[t] = category)]

\* the graph is built first (GraphAddRelationship, GraphReturn)
InitRules ==
    /\ pc = "graph"
    /\ \E chosen \in SUBSET (1..Len(RuleRelCatalogue)) :
          /\ Cardinality(chosen) <= MaxRuleRels
          /\ rels = RuleHubRels \o SubCatalogue(RuleRelCatalogue, chosen)
    /\ tables = SortedSeq(Range(RuleDimensions) \cup Endpoints(rels))
    /\ hashOrder \in HashOrders(Range(tables))
    /\ connections = EmptyDict
    /\ \E start \in [DOMAIN RuleStartCategories -> Range(PlacementCategories) \cup {None}] :
          /\ \A t \in DOMAIN RuleStartCategories : start[t] \in RuleStartCategories[t]
          /\ cat = StartSides(start)
    /\ work = 1
    /\ out = EmptyDict
    /\ finished = <<>>
    /\ disk = NoDisk
    /\ result = <<>>

\* detect_bidirectional_relationships and analyze_relationship_cardinality
RulesDetect ==
    /\ pc = "graph_done"
    /\ work' = [categorized |-> cat,
                bidirectional_pairs |-> detect_bidirectional_relationships(connections, hashOrder),
                i |-> 1]
    /\ pc' = "rules_pairs"
    /\ UNCHANGED <<tables, rels, hashOrder, connections, cat, out, finished, disk, result>>

\* the placement rule of one detected pair
RulesPair ==
    /\ pc = "rules_pairs"
    /\ work.i <= Len(work.bidirectional_pairs)
    /\ LET table1 == work.bidirectional_pairs[work.i][1]
           table2 == work.bidirectional_pairs[work.i][2]
           rel_type == relationship_type(table1, table2, connections)
       IN work' = [work EXCEPT
                      !.categorized =
                          IF rel_type = "one_to_one"
                          THEN force_opposite_sides_for_pair(table1, table2, @, connections)
                          ELSE IF rel_type = "many_to_many"
                          THEN force_same_side_for_pair(table1, table2, @, connections)
                          ELSE @,
                      !.i = @ + 1]
    /\ UNCHANGED <<pc, tables, rels, hashOrder, connections, cat, out, finished, disk, result>>

RulesReturn ==
    /\ pc = "rules_pairs"
    /\ work.i > Len(work.bidirectional_pairs)
    /\ out' = work.categorized
    /\ pc' = "rules_applied"
    /\ UNCHANGED <<tables, rels, hashOrder, connections, cat, work, finished, disk, result>>

NextRules ==
    GraphAddRelationship \/ GraphReturn \/ RulesDetect \/ RulesPair \/ RulesReturn

SpecRules == InitRules /\ [][NextRules]_vars

\* the detected pairs of a relationship type whose two tables are in side lists
PlacedPairs(rel_type) ==
    {p \in Range(work.bidirectional_pairs) :
        /\ relationship_type(p[1], p[2], connections) = rel_type
        /\ find_table_category(p[1], cat) # "unknown"
        /\ find_table_category(p[2], cat) # "unknown"}

\* "l1", "l2", "l3" or "l4" of a side list name
LevelOfCategory(category) == SubSeq(category, 1, 2)

\* C24: after apply_opposite_side_placement every placed 1:1 pair is on
\* opposite sides, every placed many-to-many pair is on the same side, and
\* every table is in a list of the level it started in.
OppositeSideRules ==
    pc = "rules_applied" =>
        /\ \A p \in PlacedPairs("one_to_one") :
              ~same_side(find_table_category(p[1], out), find_table_category(p[2], out))
        /\ \A p \in PlacedPairs("many_to_many") :
              same_side(find_table_category(p[1], out), find_table_category(p[2], out))
        /\ \A t \in Range(RuleDimensions) :
              /\ (find_table_category(t, cat) = "unknown") = (find_table_category(t, out) = "unknown")
              /\ find_table_category(t, cat) # "unknown" =>
                    LevelOfCategory(find_table_category(t, out))
                        = LevelOfCategory(find_table_category(t, cat))

(***************************************************************************)
(* SpecFamilies: optimize_universal_stack_alignment on duplicate-free      *)
(* stacks whose tables give chain families of equal and of different       *)
(* derived names ("ProductCategory" and "Product" both give "Product").    *)
(***************************************************************************)
MaxFamilyRels == 3

FamilyRelCatalogue ==
    <<PlainRel("ProductCategory", "Brand"), PlainRel("Region", "City"),
      PlainRel("Product", "Store"), PlainRel("ProductCategory", "Product"),
      PlainRel("City", "Store"), PlainRel("Store", "Fact_Sales"), PlainRel("Brand", "Store")>>

FamilyTables ==
    <<"Brand", "City", "Fact_Sales", "Product", "ProductCategory", "Region", "Store">>

InitFamilies ==
    /\ pc = "align_detect"
    /\ tables = FamilyTables
    /\ \E chosen \in SUBSET (1..Len(FamilyRelCatalogue)) :
          /\ Cardinality(chosen) <= MaxFamilyRels
          /\ rels = SubCatalogue(FamilyRelCatalogue, chosen)
    /\ hashOrder \in HashOrders(Range(FamilyTables))
    /\ connections = build_relationship_graph(rels, tables)
    /\ cat = None
    /\ \E product_category \in {"left_l3_dimensions", "right_l3_dimensions"},
          region \in {"left_l3_dimensions", None},
          brand \in {"left_l2_dimensions", "right_l2_dimensions"},
          city \in {"left_l2_dimensions", "right_l2_dimensions"},
          product \in {"left_l2_dimensions", "left_l1_dimensions"},
          store \in {"left_l1_dimensions", "right_l1_dimensions"} :
          work = [all_stacks |->
                     Stacked(Stacked(Stacked(Stacked(Stacked(Stacked(Stacked(NoStacks,
                         "fact_tables", "Fact_Sales"), product_category, "ProductCategory"),
                         region, "Region"), brand, "Brand"), city, "City"),
                         product, "Product"), store, "Store"),
                  chain_families |-> <<>>,
                  stack |-> 1]
    /\ out = NoStacks
    /\ finished = <<>>
    /\ disk = NoDisk
    /\ result = <<>>

SpecFamilies == InitFamilies /\ [][NextAlign]_vars

\* the detection index of the first chain family that holds the table, 0 for none
FirstFamily(t) ==
    IF \E i \in 1..Len(work.chain_families) : InSeq(t, work.chain_families[i].all_tables)
    THEN CHOOSE i \in 1..Len(work.chain_families) :
             /\ InSeq(t, work.chain_families[i].all_tables)
             /\ \A j \in 1..(i - 1) : ~InSeq(t, work.chain_families[j].all_tables)
    ELSE 0

\* the tables of a stack that belong to no chain family, in stack order
OutsideFamilies(stack) == SelectSeq(stack, LAMBDA t : FirstFamily(t) = 0)

\* C25: in each stack returned by _organize_stacks_by_families the tables of
\* chain families come first, in the detection order of the first family that
\* holds them, and the other tables follow in their original relative order.
FamiliesFirstInStacks ==
    pc = "aligned" =>
        \A k \in 1..Len(StackNames) :
            LET stack == out[StackNames[k]]
            IN /\ \A i, j \in 1..Len(stack) :
                     (i < j /\ FirstFamily(stack[j]) # 0) =>
                         /\ FirstFamily(stack[i]) # 0
                         /\ FirstFamily(stack[i]) <= FirstFamily(stack[j])
               /\ OutsideFamilies(stack) = OutsideFamilies(work.all_stacks[StackNames[k]])

(***************************************************************************)
(* The columns of the canvas in a run of the engine.                       *)
(***************************************************************************)
\* positions_map of the run that has returned
EnginePositionsMap ==
    calculate_canvas_positions(categorized_with_splits(work.categorized, work.aligned_stacks))

\* the tables the run places in the column of a key of positions_map
ColumnTables(key) ==
    IF key = "center"
    THEN work.calendar_connected_specials \o work.calendar_tables
         \o work.aligned_stacks.fact_tables
    ELSE IF key = "metrics" THEN work.categorized.metrics_tables
    ELSE IF key = "parameters"
    THEN work.categorized.parameter_tables \o work.categorized.disconnected_tables
         \o work.categorized.calculation_groups
    ELSE LET stack_name == CHOOSE n \in Range(StackNames) : stack_x_mapping[n] = key
         IN work.aligned_stacks[stack_name]

\* C26: calculate_canvas_positions gives a column key an x offset only when
\* the table list of that very column is non-empty; no column is created for
\* a side whose stack is empty.
ColumnsOnlyForOwnTables ==
    (pc = "returned" /\ tables # <<>>) =>
        \A key \in Range(EnginePositionsMap.keys) : ColumnTables(key) # <<>>

(***************************************************************************)
(* SpecCanvas: calculate_canvas_positions on a categorization with split   *)
(* lists, one column per step of its loop.                                 *)
(***************************************************************************)
MaxCanvasTables == 1

CanvasNames == <<"Brand", "City", "Store">>

\* a table list of the categorization: empty, or MaxCanvasTables names long
CanvasList(present) == IF present THEN SubSeq(CanvasNames, 1, MaxCanvasTables) ELSE <<>>

\* the unsplit list, the left list and the right list of one level
CanvasLevels ==
    {<<u, l, r>> \in BOOLEAN \X BOOLEAN \X BOOLEAN : u => (l \/ r)}

InitCanvas ==
    /\ pc = "canvas"
    /\ \E l1, l2, l3, l4 \in CanvasLevels :
       \E center \in {<<FALSE, FALSE>>, <<FALSE, TRUE>>, <<TRUE, TRUE>>} :
       \E metrics \in BOOLEAN :
       \E grid \in {<<FALSE, FALSE>>, <<TRUE, FALSE>>, <<FALSE, TRUE>>} :
          cat = [l1_dimensions |-> CanvasList(l1[1]),
                 l1_dimensions_left |-> CanvasList(l1[2]),
                 l1_dimensions_right |-> CanvasList(l1[3]),
                 l2_dimensions |-> CanvasList(l2[1]),
                 l2_dimensions_left |-> CanvasList(l2[2]),
                 l2_dimensions_right |-> CanvasList(l2[3]),
                 l3_dimensions |-> CanvasList(l3[1]),
                 l3_dimensions_left |-> CanvasList(l3[2]),
                 l3_dimensions_right |-> CanvasList(l3[3]),
                 l4_plus_dimensions |-> CanvasList(l4[1]),
                 l4_plus_dimensions_left |-> CanvasList(l4[2]),
                 l4_plus_dimensions_right |-> CanvasList(l4[3]),
                 calendar_tables |-> CanvasList(center[1]),
                 fact_tables |-> CanvasList(center[2]),
                 metrics_tables |-> CanvasList(metrics),
                 parameter_tables |-> CanvasList(grid[1]),
                 disconnected_tables |-> CanvasList(grid[2])]
    /\ tables = <<>>
    /\ rels = <<>>
    /\ hashOrder = <<>>
    /\ connections = EmptyDict
    /\ work = 1
    /\ out = EmptyDict
    /\ finished = <<>>
    /\ disk = NoDisk
    /\ result = <<>>

\* the columns that are needed; current_x = left_margin
CanvasStacks ==
    /\ pc = "canvas"
    /\ work' = [stacks |-> canvas_stacks(cat), i |-> 1, current_x |-> left_margin,
                positions |-> EmptyDict]
    /\ pc' = "canvas_assign"
    /\ UNCHANGED <<tables, rels, hashOrder, connections, cat, out, finished, disk, result>>

\* for i, stack in enumerate(stacks): one column
CanvasAssign ==
    /\ pc = "canvas_assign"
    /\ work.i <= Len(work.stacks)
    /\ LET stack == work.stacks[work.i]
           next_stack == IF work.i + 1 <= Len(work.stacks) THEN work.stacks[work.i + 1]
                         ELSE None
       IN work' = [work EXCEPT !.positions = DictSet(work.positions, stack, work.current_x),
                               !.current_x = work.current_x + column_step(stack, next_stack),
                               !.i = work.i + 1]
    /\ UNCHANGED <<pc, tables, rels, hashOrder, connections, cat, out, finished, disk, result>>

\* return positions
CanvasReturn ==
    /\ pc = "canvas_assign"
    /\ work.i > Len(work.stacks)
    /\ out' = work.positions
    /\ pc' = "canvas_done"
    /\ UNCHANGED <<tables, rels, hashOrder, connections, cat, work, finished, disk, result>>

NextCanvas == CanvasStacks \/ CanvasAssign \/ CanvasReturn

SpecCanvas == InitCanvas /\ [][NextCanvas]_vars

\* the loop gives what calculate_canvas_positions gives
CanvasAsCalculated == pc = "canvas_done" => out = calculate_canvas_positions(cat)

\* the fixed order of the column keys, left to right
ColumnOrder ==
    <<"l4_plus_left", "l3_left", "l2_left", "l1_left", "center", "l1_right", "l2_right",
      "l3_right", "l4_plus_right", "metrics", "parameters">>

\* the place of each column key in the fixed order
ColumnIndex == [c \in Range(ColumnOrder) |-> IndexOf(c, ColumnOrder)]

\* b is the first existing column after a in the fixed order
NextColumn(a, b) ==
    /\ ColumnIndex[a] < ColumnIndex[b]
    /\ \A c \in DOMAIN out.val : ~(ColumnIndex[a] < ColumnIndex[c] /\ ColumnIndex[c] < ColumnIndex[b])

\* C27: the x offsets of the existing columns increase strictly along the
\* fixed order L4+ left ... L1 left, center, L1 right ... L4+ right, metrics,
\* parameters; two consecutive existing columns differ by table_width plus the
\* reduced gap when either of them is a metrics/parameters column, and by
\* table_width plus the standard gap otherwise.
ColumnsInFixedOrder ==
    pc = "canvas_done" =>
        /\ DOMAIN out.val \subseteq Range(ColumnOrder)
        /\ \A a, b \in DOMAIN out.val :
              /\ ColumnIndex[a] < ColumnIndex[b] => out.val[a] < out.val[b]
              /\ NextColumn(a, b) =>
                    out.val[b] - out.val[a] =
                        table_width + (IF a \in utility_stacks \/ b \in utility_stacks
                                       THEN compact_gap ELSE stack_gap)

\* some columns are missing, dimension columns stand on both sides of the
\* center, and the metrics and the parameters column both exist
ColumnsInFixedOrderWitness ==
    /\ pc = "canvas_done"
    /\ {"l3_left", "center", "l2_right", "metrics", "parameters"} \subseteq DOMAIN out.val
    /\ {"l2_left", "l1_left", "l1_right"} \cap DOMAIN out.val = {}

(***************************************************************************)
(* The center column in a run of the engine.                               *)
(***************************************************************************)
\* the y offsets of the returned positions of a category
CategoryYs(category) == {out[k].y : k \in {i \in 1..Len(out) : out[i].category = category}}

\* C28: in the center column every calendar-connected special table stands
\* above (has a smaller y than) every calendar table, and every special and
\* every calendar table stands above every fact table, whichever of the three
\* sections are empty.
CenterSectionsInOrder ==
    pc = "returned" =>
        /\ \A s \in CategoryYs("calendar_connected_special") :
              /\ \A c \in CategoryYs("calendar") : s < c
              /\ \A f \in CategoryYs("fact") : s < f
        /\ \A c \in CategoryYs("calendar") : \A f \in CategoryYs("fact") : c < f

(***************************************************************************)
(* SpecGrid: the grid of the parameter tables, the disconnected tables and *)
(* the calculation groups, one table per step of the loop.                 *)
(***************************************************************************)
MaxGridTables == 9

GridNames ==
    <<"Config", "Lookup", "Option", "Param", "Setting", "Island", "Orphan", "Scenario",
      "Customer", "Currency", "TimeIntelligence", "Version">>

\* the x offsets that positions_map can hold for the parameters column
GridColumns == {left_margin + k * (table_width + compact_gap) : k \in 0..2}

\* connections holds positions_map, cat the three table lists
InitGrid ==
    /\ pc = "grid"
    /\ \E p, d, c \in 0..MaxGridTables :
          /\ p + d + c <= MaxGridTables
          /\ p + d + c <= Len(GridNames)
          /\ cat = [parameter_tables |-> SubSeq(GridNames, 1, p),
                    disconnected_tables |-> SubSeq(GridNames, p + 1, p + d),
                    calculation_groups |-> SubSeq(GridNames, p + d + 1, p + d + c)]
    /\ \E x \in GridColumns : connections = DictSet(EmptyDict, "parameters", x)
    /\ tables = <<>>
    /\ rels = <<>>
    /\ hashOrder = <<>>
    /\ work = 1
    /\ out = <<>>
    /\ finished = <<>>
    /\ disk = NoDisk
    /\ result = <<>>

\* no table for the grid: nothing is positioned
GridEmpty ==
    /\ pc = "grid"
    /\ cat.parameter_tables \o cat.disconnected_tables \o cat.calculation_groups = <<>>
    /\ out' = <<>>
    /\ pc' = "grid_done"
    /\ UNCHANGED <<tables, rels, hashOrder, connections, cat, work, finished, disk, result>>

\* all_unconnected_tables, param_start_x, param_start_y
GridBegin ==
    /\ pc = "grid"
    /\ cat.parameter_tables \o cat.disconnected_tables \o cat.calculation_groups # <<>>
    /\ HasKey(connections, "parameters")
    /\ work' = [tables |-> cat.parameter_tables \o cat.disconnected_tables
                           \o cat.calculation_groups,
                start_x |-> connections.val["parameters"], start_y |-> top_y,
                i |-> 1, positions |-> <<>>]
    /\ pc' = "grid_place"
    /\ UNCHANGED <<tables, rels, hashOrder, connections, cat, out, finished, disk, result>>

\* for i, table in enumerate(tables): one table
GridPlace ==
    /\ pc = "grid_place"
    /\ work.i <= Len(work.tables)
    /\ LET total_count == Len(work.tables)
           grid_cols == IF total_count <= max_grid_cols THEN total_count ELSE max_grid_cols
           col == (work.i - 1) % grid_cols
           row == (work.i - 1) \div grid_cols
       IN work' = [work EXCEPT
                     !.positions = Append(work.positions,
                                       Position(work.tables[work.i],
                                                work.start_x + col * col_spacing,
                                                work.start_y + row * row_spacing,
                                                expanded_height, "parameter_grid")),
                     !.i = work.i + 1]
    /\ UNCHANGED <<pc, tables, rels, hashOrder, connections, cat, out, finished, disk, result>>

\* return positions
GridReturn ==
    /\ pc = "grid_place"
    /\ work.i > Len(work.tables)
    /\ out' = work.positions
    /\ pc' = "grid_done"
    /\ UNCHANGED <<tables, rels, hashOrder, connections, cat, work, finished, disk, result>>

NextGrid == GridEmpty \/ GridBegin \/ GridPlace \/ GridReturn

SpecGrid == InitGrid /\ [][NextGrid]_vars

\* the loop gives what add_additional_table_positions gives for the grid
GridAsGenerated ==
    pc = "grid_done" =>
        out = add_additional_table_positions(connections, <<>>, cat.parameter_tables,
                                             cat.disconnected_tables, cat.calculation_groups)

\* C29: the grid has 4 columns when it holds more than 8 tables and one
\* column per table otherwise (n tables in one row for n = 1..8); table i,
\* counted from 0, stands at column i mod cols and row i div cols, the columns
\* col_spacing apart and the rows row_spacing apart.
GridColumnsByCount ==
    pc = "grid_done" =>
        LET n == Len(out)
            cols == IF n > 8 THEN 4 ELSE n
        IN \A k \in 1..n :
              /\ out[k].x = connections.val["parameters"] + ((k - 1) % cols) * col_spacing
              /\ out[k].y = top_y + ((k - 1) \div cols) * row_spacing

====
